---- MODULE Spec2Model ----
(***************************************************************************)
(* A model of quill's reconciliation core: the external node store (a Bevy *)
(* World reduced to the components the engine touches), NodeSpan, the View *)
(* build contract (text leaf, bare presenter, Bind, callback combinator),  *)
(* ViewState (the type-erased holder), TrackedResources and the            *)
(* three-phase update_views driver.                                        *)
(*                                                                         *)
(* plugin.rs names the holder component ViewRoot (field `handle`),         *)
(* view_handle.rs and view.rs name it ViewHandle (field `inner`): it is    *)
(* one component, an Option<Box<dyn AnyViewState>> on the owning node, and *)
(* is modelled as one slot per node.                                       *)
(***************************************************************************)
EXTENDS Naturals, Sequences, FiniteSets, TLC

(* ---------------------------------------------------------------- bounds *)

\* Number of root presenter nodes the host spawns.
MaxRoots == 2

\* Number of update_views cycles (one per host tick) that are explored.
MaxCycles == 2

\* Number of nodes in the store a text leaf is built against directly.
MaxLeaves == 3

\* Number of roots of a host that also razes them.
MaxRazeRoots == 1

\* Updates a view receives after its build, when it is driven directly.
MaxUpdates == 2

\* Every root subtree creates at most three nodes (owning node, nested owning
\* node, text leaf), and the single root of SpecWide at most two per cycle
\* after its first four, so this many ids are never exhausted.
MaxEntities == 3 * MaxRoots
\* Nodes of a styled tree.
MaxStyled == 3

Ids == 1 .. MaxEntities

\* Option<Entity>::None, and the unit state () of a leaf view.
NoEntity == 0

\* The shared values (Bevy resources) presenters read.
Resources == {"A", "B"}

(* -------------------------------------------------------------- NodeSpan *)

Empty == [kind |-> "Empty"]

Node(e) == [kind |-> "Node", entity |-> e]

Fragment(ns) == [kind |-> "Fragment", nodes |-> ns]

RECURSIVE count(_)
count(span) ==
    CASE span.kind = "Empty" -> 0
      [] span.kind = "Node" -> 1
      [] OTHER ->
            LET RECURSIVE Sum(_)
                Sum(ns) == IF ns = <<>> THEN 0 ELSE count(Head(ns)) + Sum(Tail(ns))
            IN Sum(span.nodes)

\* Mutant of flatten: a fragment is not descended into below its first level.
flattenShallow(span, out) ==
    CASE span.kind = "Empty" -> out
      [] span.kind = "Node" -> Append(out, span.entity)
      [] OTHER ->
            LET RECURSIVE Each(_, _)
                Each(ns, acc) ==
                    IF ns = <<>> THEN acc
                    ELSE Each(Tail(ns), IF Head(ns).kind = "Node"
                                        THEN Append(acc, Head(ns).entity) ELSE acc)
            IN Each(span.nodes, out)

RECURSIVE flatten(_, _)
flatten(span, out) ==
    CASE span.kind = "Empty" -> out
      [] span.kind = "Node" -> Append(out, span.entity)
      [] OTHER ->
            LET RECURSIVE Each(_, _)
                Each(ns, acc) ==
                    IF ns = <<>> THEN acc ELSE Each(Tail(ns), flatten(Head(ns), acc))
            IN Each(span.nodes, out)

\* Mutant of eq: fragments are zipped without comparing their lengths.
RECURSIVE eqZipOnly(_, _)
eqZipOnly(self, other) ==
    CASE self.kind = "Empty" /\ other.kind = "Empty" -> TRUE
      [] self.kind = "Node" /\ other.kind = "Node" -> self.entity = other.entity
      [] self.kind = "Fragment" /\ other.kind = "Fragment" ->
            \A i \in DOMAIN self.nodes \cap DOMAIN other.nodes :
                eqZipOnly(self.nodes[i], other.nodes[i])
      [] OTHER -> FALSE

\* impl PartialEq for NodeSpan :: eq
RECURSIVE eq(_, _)
eq(self, other) ==
    CASE self.kind = "Empty" /\ other.kind = "Empty" -> TRUE
      [] self.kind = "Node" /\ other.kind = "Node" -> self.entity = other.entity
      [] self.kind = "Fragment" /\ other.kind = "Fragment" ->
            /\ Len(self.nodes) = Len(other.nodes)
            /\ \A i \in DOMAIN self.nodes : eq(self.nodes[i], other.nodes[i])
      [] OTHER -> FALSE

(* ------------------------------------------------------- the node store *)

\* The holder slot of a node: no ViewHandle component, a component whose
\* Option is None (the placeholder left by take()), or Some(holder).
NoHandle == [tag |-> "none"]

Placeholder == [tag |-> "placeholder"]

\* A node without a Text component.
NoText == <<>>

\* A node without the component C of a ViewInsert, or without the bundle B
\* of a ViewInsertBundle.
NoComp == <<>>

\* ViewState::new: presenter and props bound, no view yet, default state,
\* empty cached shape.
NewViewState(presenter, props) ==
    [tag |-> "holder", presenter |-> presenter, props |-> props,
     view |-> [kind |-> "none"], state |-> NoEntity, nodes |-> Empty]

\* A node without ElementStyles.
NoElt == [kind |-> "none"]

\* An ElementStyles component.  `override` stands for what applying its
\* style sets does to the inherited font, font size and colour: NoComp
\* leaves them as inherited, another value replaces them.  `changed` is
\* Ref::is_changed() of the component.
ElementStyles(override, changed, selector_depth, uses_hover, uses_focus_within) ==
    [kind |-> "styles", override |-> override, changed |-> changed,
     selector_depth |-> selector_depth, uses_hover |-> uses_hover,
     uses_focus_within |-> uses_focus_within]

\* What a SelectorMatcher answers: the nodes it reports as hovered,
\* focused, focus-visible and having the focus within.
Matcher(hovering, focused, focus_visible, focus_within) ==
    [hovering |-> hovering, focused |-> focused,
     focus_visible |-> focus_visible, focus_within |-> focus_within]

NoMatches == Matcher({}, {}, {}, {})

\* The components update_styles reads and writes, for a store without
\* styled nodes: ElementStyles and cached TextStyles per node, the text
\* nodes whose Text changed, the nodes with ElementClasses and those whose
\* class list changed, the current and the previous matcher.
NoUi ==
    [elt |-> [e \in Ids |-> NoElt],
     cached |-> [e \in Ids |-> NoComp],
     textChanged |-> {},
     classes |-> {},
     classesChanged |-> {},
     matcher |-> NoMatches,
     matcher_prev |-> NoMatches]

EmptyWorld ==
    [alive |-> {},
     parent |-> [e \in Ids |-> NoEntity],
     hasTracked |-> {},
     tracked |-> [e \in Ids |-> <<>>],
     handle |-> [e \in Ids |-> NoHandle],
     text |-> [e \in Ids |-> NoText],
     comp |-> [e \in Ids |-> NoComp],
     bundle |-> [e \in Ids |-> NoComp],
     ui |-> NoUi,
     res |-> [r \in Resources |-> 0],
     next |-> 1,
     log |-> <<>>,
     razed |-> <<>>,
     panic |-> ""]

\* A record of what the code did, kept beside the store for the properties.
Log(w, ev, e, info) ==
    [w EXCEPT !.log = Append(@, [ev |-> ev, e |-> e, info |-> info])]

\* A Rust panic: the running system aborts, nothing after it executes.
Panic(w, msg) == [w EXCEPT !.panic = msg]

Panicked(w) == w.panic # ""

\* What the holder slot of e looks like from the store.
SlotTag(w, e) == IF e \in w.alive THEN w.handle[e].tag ELSE "gone"

\* world.spawn(bundle), optionally .set_parent(parent). set_parent reaches the
\* parent through world.entity_mut, which panics on a missing entity.
SpawnNode(w, parent, withTracked, slot, text) ==
    LET id == w.next
        w1 == [w EXCEPT !.alive = @ \cup {id},
                        !.parent[id] = parent,
                        !.hasTracked = IF withTracked THEN @ \cup {id} ELSE @,
                        !.tracked[id] = <<>>,
                        !.handle[id] = slot,
                        !.text[id] = text,
                        !.next = id + 1]
    IN IF parent # NoEntity /\ parent \notin w.alive
       THEN Panic(w1, "set_parent: entity does not exist")
       ELSE Log(w1, "spawn", id, "")

RECURSIVE Descendants(_, _)
Descendants(w, S) ==
    LET kids == {d \in w.alive : w.parent[d] \in S}
    IN IF kids \subseteq S THEN S ELSE Descendants(w, S \cup kids)

\* world.entity_mut(e).despawn_recursive(): e and every node below it are
\* removed with all their components; entity_mut panics on a missing entity.
DespawnEntityRecursive(w, e) ==
    IF Panicked(w) THEN w
    ELSE IF e \notin w.alive THEN Panic(w, "entity_mut: entity does not exist")
    ELSE LET gone == Descendants(w, {e})
         IN Log([w EXCEPT !.alive = @ \ gone,
                          !.hasTracked = @ \ gone,
                          !.parent = [x \in Ids |-> IF x \in gone THEN NoEntity ELSE @[x]],
                          !.tracked = [x \in Ids |-> IF x \in gone THEN <<>> ELSE @[x]],
                          !.handle = [x \in Ids |-> IF x \in gone THEN NoHandle ELSE @[x]],
                          !.text = [x \in Ids |-> IF x \in gone THEN NoText ELSE @[x]],
                          !.comp = [x \in Ids |-> IF x \in gone THEN NoComp ELSE @[x]],
                          !.bundle = [x \in Ids |-> IF x \in gone THEN NoComp ELSE @[x]]],
                "despawn", e, "")

\* NodeSpan::despawn_recursive
RECURSIVE despawn_recursive(_, _)
despawn_recursive(w, span) ==
    CASE span.kind = "Empty" -> w
      [] span.kind = "Node" -> DespawnEntityRecursive(w, span.entity)
      [] OTHER ->
            LET RECURSIVE Each(_, _)
                Each(ns, acc) ==
                    IF ns = <<>> THEN acc
                    ELSE Each(Tail(ns), despawn_recursive(acc, Head(ns)))
            IN Each(span.nodes, w)

(* ------------------------------------------------ views and presenters *)

\* View descriptors: immutable values a presenter returns.
UnitView == [kind |-> "unit"]

TextView(value) == [kind |-> "text", value |-> value]

\* Bind::new(presenter, props)
BindView(presenter, props) == [kind |-> "bind", presenter |-> presenter, props |-> props]

\* A bare presenter fn(cx: Cx) -> A used as a view.
FnView(presenter) == [kind |-> "fn", presenter |-> presenter]

\* View::with(callback): the callback gets each output node and the World.
\* The callbacks explored despawn the node `target` when it carries a holder
\* slot, or do nothing (target = NoEntity).
WithView(inner, target) == [kind |-> "with", inner |-> inner, target |-> target]

\* View::insert(component): the view and the component to put on its output.
InsertView(inner, component) ==
    [kind |-> "insert", inner |-> inner, component |-> component]

\* The presenters of the explored applications, in the manner of ui_main
\* and button in examples/inset_view.rs.  The ones a host spawns as roots:
RootPresenters == {"label", "frame", "host", "closer"}

\* Those among them that use no callback.
CorePresenters == {"label", "frame", "host"}

\* Roots whose presenters bind props from a shared value (panel), read a
\* second value only while the first is 0 (switch), or return a bare
\* presenter whose own view is a Bind (shell).
WidePresenters == {"panel", "switch", "shell"}

\* The shared values a presenter reads through cx.use_resource, in order.
Reads(presenter, props, res) ==
    CASE presenter \in {"label", "raw", "closer", "panel"} -> <<"A">>
      [] presenter \in {"frame", "shell"} -> <<"B">>
      [] presenter = "switch" -> IF res["A"] = 0 THEN <<"A", "B">> ELSE <<"A">>
      [] OTHER -> <<>>

\* The view a presenter returns for its props and the values it read.
ViewOf(presenter, props, res) ==
    CASE presenter = "label" -> TextView(<<"label", props, res["A"]>>)
      [] presenter = "frame" -> BindView("label", props)
      [] presenter = "host" -> FnView("raw")
      [] presenter = "raw" -> TextView(<<"raw", 0, res["A"]>>)
      [] presenter = "panel" -> BindView("tag", res["A"])
      [] presenter = "tag" -> TextView(<<"tag", props, 0>>)
      [] presenter = "switch" -> TextView(<<"switch", 0, res["A"]>>)
      [] presenter = "shell" -> FnView("wrap")
      [] presenter = "wrap" -> BindView("tag", 0)
      [] presenter = "strip" -> TextView(<<"strip", props, 0>>)
      [] OTHER -> WithView(TextView(<<"closer", 0, res["A"]>>), props)

\* Mutant of use_resource: the read is recorded on the parent of the node
\* the context is scoped to, when it has one.
use_resourceOnParent(w, entity, r) ==
    IF Panicked(w) THEN w
    ELSE IF entity \notin w.alive \/ entity \notin w.hasTracked
    THEN Panic(w, "TrackedResources not found for this entity")
    ELSE IF w.parent[entity] # NoEntity /\ w.parent[entity] \in w.hasTracked
    THEN [w EXCEPT !.tracked[w.parent[entity]] = Append(@, r)]
    ELSE [w EXCEPT !.tracked[entity] = Append(@, r)]

\* Cx::use_resource / Cx::use_resource_mut: record the read on the tracker of
\* the node the context is scoped to; expect() panics when it has none.
use_resource(w, entity, r) ==
    IF Panicked(w) THEN w
    ELSE IF entity \notin w.alive \/ entity \notin w.hasTracked
    THEN Panic(w, "TrackedResources not found for this entity")
    ELSE [w EXCEPT !.tracked[entity] = Append(@, r)]

\* (self.presenter)(cx): the presenter runs with a context scoped to `entity`.
RECURSIVE ReadAll(_, _, _)
ReadAll(w, entity, rs) ==
    IF rs = <<>> THEN w ELSE ReadAll(use_resource(w, entity, Head(rs)), entity, Tail(rs))

\* What a presenter does to the store through cx.sys besides reading
\* shared values: `strip` removes the ViewHandle component of its own node.
PresenterEffect(w, entity, presenter) ==
    IF ~Panicked(w) /\ presenter = "strip" /\ entity \in w.alive
    THEN [w EXCEPT !.handle[entity] = NoHandle]
    ELSE w

InvokePresenter(w, entity, presenter, props) ==
    IF Panicked(w) THEN w
    ELSE PresenterEffect(ReadAll(Log(w, "presenter", entity, presenter), entity,
                                 Reads(presenter, props, w.res)),
                         entity, presenter)

(* ------------------------------------------------------------ View::build *)

Built(w, state, nodes) == [w |-> w, state |-> state, nodes |-> nodes]

\* Mutant of TextBuild: the previous shape is never reused.
TextBuildAlwaysReplaces(w, view, prev) ==
    LET w1 == despawn_recursive(w, prev)
    IN IF Panicked(w1) THEN Built(w1, NoEntity, Empty)
       ELSE Built(SpawnNode(w1, NoEntity, FALSE, NoHandle, view.value),
                  NoEntity, Node(w1.next))

\* Mutant of TextBuild: a previous shape that cannot be reused is left alone.
TextBuildKeepsPrev(w, view, prev) ==
    IF prev.kind = "Node" /\ prev.entity \in w.alive /\ w.text[prev.entity] # NoText
    THEN Built([w EXCEPT !.text[prev.entity] = view.value], NoEntity, prev)
    ELSE Built(SpawnNode(w, NoEntity, FALSE, NoHandle, view.value), NoEntity, Node(w.next))

\* impl View for String / &'static str :: build
TextBuild(w, view, prev) ==
    IF prev.kind = "Node" /\ prev.entity \notin w.alive
    THEN Built(Panic(w, "entity_mut: entity does not exist"), NoEntity, Empty)
    ELSE IF prev.kind = "Node" /\ w.text[prev.entity] # NoText
    THEN Built([w EXCEPT !.text[prev.entity] = view.value], NoEntity, prev)
    ELSE LET w1 == despawn_recursive(w, prev)
             id == w1.next
         IN IF Panicked(w1) THEN Built(w1, NoEntity, Empty)
            ELSE Built(SpawnNode(w1, NoEntity, FALSE, NoHandle, view.value),
                       NoEntity, Node(id))

\* The callback of View::with, run for each node of the output.
Callback(w, target) ==
    IF Panicked(w) \/ target = NoEntity \/ target \notin w.alive THEN w
    ELSE IF w.handle[target] = NoHandle THEN w
    ELSE DespawnEntityRecursive(w, target)

RECURSIVE ViewBuild(_, _, _, _, _)
RECURSIVE HolderBuild(_, _, _)

\* Mutant of AnyViewState_nodes: the caller's prev is handed back.
AnyViewState_nodesEcho(h, prev) == prev

\* impl AnyViewState for ViewState :: nodes
AnyViewState_nodes(h, prev) == h.nodes

\* impl AnyViewState for ViewState :: count
AnyViewState_count(h) == count(h.nodes)

\* Mutant of TakeHandle: the holder is read and left in the store.
TakeHandleLeftInPlace(w, entity) == Log(w, "take", entity, "bind")

\* handle.inner.take(): the holder leaves the store, the slot keeps None.
TakeHandle(w, entity) ==
    Log([w EXCEPT !.handle[entity] = Placeholder], "take", entity, "bind")

\* Mutant of BindBuildAt: a holder whose slot is gone after the nested build
\* is given a new slot.
BindBuildAtReinserts(w, entity, prev) ==
    IF Panicked(w) THEN Built(w, entity, Empty)
    ELSE IF entity \notin w.alive
    THEN Built(Panic(w, "entity_mut: entity does not exist"), entity, Empty)
    ELSE IF w.handle[entity] = NoHandle THEN Built(w, entity, Empty)
    ELSE IF w.handle[entity] = Placeholder
    THEN Built(Panic(w, "ViewState::handle should be present at this point"),
               entity, Empty)
    ELSE LET inner == w.handle[entity]
             taken == TakeHandle(w, entity)
             r == HolderBuild(taken, inner, entity)
             nodes == AnyViewState_nodes(r.h, prev)
         IN IF Panicked(r.w) THEN Built(r.w, entity, Empty)
            ELSE IF entity \notin r.w.alive
            THEN Built(Panic(r.w, "entity_mut: entity does not exist"), entity, Empty)
            ELSE Built(Log([r.w EXCEPT !.handle[entity] = r.h], "attach", entity, "bind"),
                       entity, nodes)

\* impl View for Bind<V, Props> :: build, after the owning node is known.
BindBuildAt(w, entity, prev) ==
    IF Panicked(w) THEN Built(w, entity, Empty)
    ELSE IF entity \notin w.alive
    THEN Built(Panic(w, "entity_mut: entity does not exist"), entity, Empty)
    ELSE IF w.handle[entity] = NoHandle THEN Built(w, entity, Empty)
    ELSE IF w.handle[entity] = Placeholder
    THEN Built(Panic(w, "ViewState::handle should be present at this point"),
               entity, Empty)
    ELSE LET inner == w.handle[entity]
             taken == TakeHandle(w, entity)
             r == HolderBuild(taken, inner, entity)
             nodes == AnyViewState_nodes(r.h, prev)
         IN IF Panicked(r.w) THEN Built(r.w, entity, Empty)
            ELSE IF entity \notin r.w.alive
            THEN Built(Panic(r.w, "entity_mut: entity does not exist"), entity, Empty)
            ELSE IF r.w.handle[entity] = NoHandle
            THEN Built(Log(r.w, "drop", entity, "bind"), entity, Empty)
            ELSE Built(Log([r.w EXCEPT !.handle[entity] = r.h], "attach", entity, "bind"),
                       entity, nodes)

\* Mutant of BindBuild: an owning node is spawned on every build.
BindBuildAlwaysSpawns(w, view, ecxEntity, state, prev) ==
    BindBuildAt(SpawnNode(w, ecxEntity, TRUE,
                          NewViewState(view.presenter, view.props), NoText),
                w.next, prev)

\* impl View for Bind<V, Props> :: build
BindBuild(w, view, ecxEntity, state, prev) ==
    IF state # NoEntity THEN BindBuildAt(w, state, prev)
    ELSE LET id == w.next
             w1 == SpawnNode(w, ecxEntity, TRUE,
                             NewViewState(view.presenter, view.props), NoText)
         IN BindBuildAt(w1, id, prev)

\* impl View for fn(cx: Cx) -> A :: build.  The owning node carries a tracker
\* and no holder; the state of the returned view is a fresh default each time.
FnBuild(w, view, ecxEntity, state, prev) ==
    LET id == IF state # NoEntity THEN state ELSE w.next
        w1 == IF state # NoEntity THEN w
              ELSE SpawnNode(w, ecxEntity, TRUE, NoHandle, NoText)
        w2 == InvokePresenter(w1, id, view.presenter, 0)
        r == ViewBuild(w2, ViewOf(view.presenter, 0, w.res), ecxEntity, NoEntity, prev)
    IN Built(r.w, id, r.nodes)

\* ViewWith::build: build the inner view, then run the callback on its output.
WithBuild(w, view, ecxEntity, state, prev) ==
    LET r == ViewBuild(w, view.inner, ecxEntity, state, prev)
    IN IF r.nodes.kind = "Empty" THEN r
       ELSE Built(Callback(r.w, view.target), r.state, r.nodes)

\* Mutant of insert_component: the component is inserted over one present.
RECURSIVE insert_componentOverwrites(_, _, _)
insert_componentOverwrites(w, component, nodes) ==
    IF Panicked(w) THEN w
    ELSE CASE nodes.kind = "Empty" -> w
           [] nodes.kind = "Node" ->
                IF nodes.entity \notin w.alive
                THEN Panic(w, "entity_mut: entity does not exist")
                ELSE Log([w EXCEPT !.comp[nodes.entity] = component],
                         "insert", nodes.entity, "component")
           [] OTHER ->
                LET RECURSIVE Each(_, _)
                    Each(ns, acc) ==
                        IF ns = <<>> THEN acc
                        ELSE Each(Tail(ns),
                                  insert_componentOverwrites(acc, component, Head(ns)))
                IN Each(nodes.nodes, w)

\* ViewInsert::insert_component
RECURSIVE insert_component(_, _, _)
insert_component(w, component, nodes) ==
    IF Panicked(w) THEN w
    ELSE CASE nodes.kind = "Empty" -> w
           [] nodes.kind = "Node" ->
                IF nodes.entity \notin w.alive
                THEN Panic(w, "entity_mut: entity does not exist")
                ELSE IF w.comp[nodes.entity] # NoComp THEN w
                ELSE Log([w EXCEPT !.comp[nodes.entity] = component],
                         "insert", nodes.entity, "component")
           [] OTHER ->
                LET RECURSIVE Each(_, _)
                    Each(ns, acc) ==
                        IF ns = <<>> THEN acc
                        ELSE Each(Tail(ns), insert_component(acc, component, Head(ns)))
                IN Each(nodes.nodes, w)

\* impl View for ViewInsert<V, C> :: build
InsertBuild(w, view, ecxEntity, state, prev) ==
    LET r == ViewBuild(w, view.inner, ecxEntity, state, prev)
    IN Built(insert_component(r.w, view.component, r.nodes), r.state, r.nodes)

\* View::build, dispatched on the kind of view.
ViewBuild(w, view, ecxEntity, state, prev) ==
    IF Panicked(w) THEN Built(w, state, Empty)
    ELSE CASE view.kind = "unit" -> Built(w, state, Empty)
           [] view.kind = "text" -> TextBuild(w, view, prev)
           [] view.kind = "bind" -> BindBuild(w, view, ecxEntity, state, prev)
           [] view.kind = "fn" -> FnBuild(w, view, ecxEntity, state, prev)
           [] view.kind = "insert" -> InsertBuild(w, view, ecxEntity, state, prev)
           [] OTHER -> WithBuild(w, view, ecxEntity, state, prev)

\* impl AnyViewState for ViewState :: build
HolderBuild(w, h, entity) ==
    LET wb == Log(w, "begin", entity, SlotTag(w, entity))
        w1 == InvokePresenter(wb, entity, h.presenter, h.props)
        view == ViewOf(h.presenter, h.props, w.res)
        r == ViewBuild(w1, view, entity, h.state, h.nodes)
    IN [w |-> IF Panicked(r.w) THEN r.w ELSE Log(r.w, "end", entity, SlotTag(r.w, entity)),
        h |-> [h EXCEPT !.view = view, !.state = r.state, !.nodes = r.nodes]]

(* ------------------------------------------------------------- View::raze *)

Razed(w, state) == [w |-> w, state |-> state]

RECURSIVE ViewRaze(_, _, _, _)
RECURSIVE HolderRaze(_, _, _)

\* impl View for String / &'static str :: raze
TextRaze(w, prev) == Razed(despawn_recursive(w, prev), NoEntity)

\* impl View for fn(cx: Cx) -> A :: raze is todo!()
FnRaze(w, state) == Razed(Panic(w, "not yet implemented"), state)

\* Mutant of RazeTake: the holder is razed and stays in the store.
RazeTakeLeftInPlace(w, entity) == w

\* handle.inner.take() in Bind::raze: the holder leaves the store for good.
RazeTake(w, entity) == [w EXCEPT !.handle[entity] = Placeholder]

\* impl View for Bind<V, Props> :: raze
BindRaze(w, state) ==
    IF Panicked(w) \/ state = NoEntity THEN Razed(w, NoEntity)
    ELSE IF state \notin w.alive
    THEN Razed(Panic(w, "entity_mut: entity does not exist"), NoEntity)
    ELSE IF w.handle[state] = NoHandle THEN Razed(w, NoEntity)
    ELSE IF w.handle[state] = Placeholder
    THEN Razed(Panic(w, "ViewState::handle should be present at this point"), NoEntity)
    ELSE LET inner == w.handle[state]
             r == HolderRaze(RazeTake(w, state), inner, state)
         IN Razed(r.w, NoEntity)

\* ViewWith::raze: the combinator hands raze to the view it wraps.
WithRaze(w, view, state, prev) == ViewRaze(w, view.inner, state, prev)

\* impl View for ViewInsert<V, C> :: raze
InsertRaze(w, view, state, prev) == ViewRaze(w, view.inner, state, prev)

\* View::raze, dispatched on the kind of view.
ViewRaze(w, view, state, prev) ==
    IF Panicked(w) THEN Razed(w, state)
    ELSE CASE view.kind = "unit" -> Razed(w, state)
           [] view.kind = "text" -> TextRaze(w, prev)
           [] view.kind = "bind" -> BindRaze(w, state)
           [] view.kind = "fn" -> FnRaze(w, state)
           [] view.kind = "insert" -> InsertRaze(w, view, state, prev)
           [] OTHER -> WithRaze(w, view, state, prev)

\* Mutant of HolderRaze: the cached view is razed and kept (no take()).
HolderRazeKeepsView(w, h, entity) ==
    LET w0 == [Log(w, "raze", entity, "") EXCEPT
                  !.razed = Append(@, [e |-> entity, leaves |-> flatten(h.nodes, <<>>)])]
    IN IF h.view.kind = "none" THEN [w |-> w0, h |-> h]
       ELSE LET r == ViewRaze(w0, h.view, h.state, h.nodes)
            IN [w |-> r.w, h |-> [h EXCEPT !.state = r.state]]

\* impl AnyViewState for ViewState :: raze.  The store's `razed` keeps, for
\* the properties, each holder razed and the leaves of its cached shape.
HolderRaze(w, h, entity) ==
    LET w0 == [Log(w, "raze", entity, "") EXCEPT
                  !.razed = Append(@, [e |-> entity, leaves |-> flatten(h.nodes, <<>>)])]
    IN IF h.view.kind = "none" THEN [w |-> w0, h |-> h]
       ELSE LET r == ViewRaze(w0, h.view, h.state, h.nodes)
            IN [w |-> r.w,
                h |-> [h EXCEPT !.view = [kind |-> "none"], !.state = r.state]]

(* ------------------------------------------------------ ViewInsertBundle *)

\* View::insert_bundle(bundle): component is a Cell<Option<B>> holding the
\* bundle (NoComp once it has been taken).
BundleView(component) == [kind |-> "bundle", component |-> component]

\* Mutant of insert_bundle: a fragment receives the bundle on its first leaf.
insert_bundleIntoFirst(w, view, nodes) ==
    LET leaves == flatten(nodes, <<>>)
    IN IF Panicked(w) \/ leaves = <<>> THEN [w |-> w, view |-> view]
       ELSE IF leaves[1] \notin w.alive
       THEN [w |-> Panic(w, "entity_mut: entity does not exist"), view |-> view]
       ELSE IF view.component = NoComp
       THEN [w |-> Panic(w, "called Option::unwrap() on a None value"),
             view |-> view]
       ELSE [w |-> Log([w EXCEPT !.bundle[leaves[1]] = view.component],
                       "insert", leaves[1], "bundle"),
             view |-> [view EXCEPT !.component = NoComp]]

\* ViewInsertBundle::insert_component: returns the store and the view,
\* whose cell is empty once the bundle has been taken out of it.
insert_bundle(w, view, nodes) ==
    IF Panicked(w) THEN [w |-> w, view |-> view]
    ELSE CASE nodes.kind = "Empty" -> [w |-> w, view |-> view]
           [] nodes.kind = "Node" ->
                IF nodes.entity \notin w.alive
                THEN [w |-> Panic(w, "entity_mut: entity does not exist"), view |-> view]
                ELSE IF view.component = NoComp
                THEN [w |-> Panic(w, "called Option::unwrap() on a None value"),
                      view |-> view]
                ELSE [w |-> Log([w EXCEPT !.bundle[nodes.entity] = view.component],
                                "insert", nodes.entity, "bundle"),
                      view |-> [view EXCEPT !.component = NoComp]]
           [] OTHER ->
                [w |-> Panic(w, "Can only insert into a singular node"), view |-> view]

\* impl View for ViewInsertBundle<V, B> :: build, the inner view's output
\* being `nodes`.  The state returned records that output.
BundleBuild(w, view, nodes) ==
    LET r == insert_bundle(w, view, nodes)
    IN [w |-> r.w, view |-> r.view, state |-> nodes]

\* impl View for ViewInsertBundle<V, B> :: update, the inner view's output
\* after its own update being `nodes`.
BundleUpdate(w, view, state, nodes) ==
    IF ~eq(state, nodes)
    THEN LET r == insert_bundle(w, view, nodes)
         IN [w |-> r.w, view |-> r.view, state |-> nodes]
    ELSE [w |-> w, view |-> view, state |-> state]

(* -------------------------------------------------------- update_styles *)

\* TextStyles::default(): what a root inherits.
DefaultTextStyles == <<"default">>

\* Mutant of is_changed: the walk starts at the parent of the element.
is_changedFromParent(w, element_styles, entity) ==
    LET ui == w.ui
        Differs(S, T, e) == (e \in S) # (e \in T)
        RECURSIVE Walk(_, _)
        Walk(e, n) ==
            IF n = 0 THEN FALSE
            ELSE IF /\ e \in ui.classes
                    /\ \/ element_styles.uses_hover
                            /\ Differs(ui.matcher.hovering, ui.matcher_prev.hovering, e)
                       \/ Differs(ui.matcher.focused, ui.matcher_prev.focused, e)
                       \/ Differs(ui.matcher.focus_visible, ui.matcher_prev.focus_visible, e)
                       \/ element_styles.uses_focus_within
                            /\ Differs(ui.matcher.focus_within, ui.matcher_prev.focus_within, e)
                       \/ e \in ui.classesChanged
            THEN TRUE
            ELSE IF w.parent[e] = NoEntity THEN FALSE
            ELSE Walk(w.parent[e], n - 1)
    IN IF element_styles.changed THEN TRUE
       ELSE IF element_styles.selector_depth = 0 THEN FALSE
       ELSE IF w.parent[entity] = NoEntity THEN FALSE
       ELSE Walk(w.parent[entity], element_styles.selector_depth)

\* is_changed
is_changed(w, element_styles, entity) ==
    LET ui == w.ui
        Differs(S, T, e) == (e \in S) # (e \in T)
        RECURSIVE Walk(_, _)
        Walk(e, n) ==
            IF n = 0 THEN FALSE
            ELSE IF /\ e \in ui.classes
                    /\ \/ element_styles.uses_hover
                            /\ Differs(ui.matcher.hovering, ui.matcher_prev.hovering, e)
                       \/ Differs(ui.matcher.focused, ui.matcher_prev.focused, e)
                       \/ Differs(ui.matcher.focus_visible, ui.matcher_prev.focus_visible, e)
                       \/ element_styles.uses_focus_within
                            /\ Differs(ui.matcher.focus_within, ui.matcher_prev.focus_within, e)
                       \/ e \in ui.classesChanged
            THEN TRUE
            ELSE IF w.parent[e] = NoEntity THEN FALSE
            ELSE Walk(w.parent[e], n - 1)
    IN IF element_styles.changed THEN TRUE
       ELSE IF element_styles.selector_depth = 0 THEN FALSE
       ELSE Walk(entity, element_styles.selector_depth)

\* What update_element_styles found at a node it did not reach.
NotSeen ==
    [visited |-> FALSE, recomputed |-> FALSE, inherited |-> NoComp,
     text_styles |-> NoComp, changed |-> FALSE]

\* Mutant of StyleNode: text styles equal to the inherited ones never
\* remove a cached copy.
StyleNodeKeepsCache(w, entity, inherited_styles, inherited_styles_changed) ==
    LET es == w.ui.elt[entity]
        prev_text_styles == w.ui.cached[entity]
        txt == w.text[entity] # NoText
        changed0 == \/ es # NoElt /\ is_changed(w, es, entity)
                    \/ txt /\ entity \in w.ui.textChanged
        recompute == changed0 \/ inherited_styles_changed
        computed == IF es # NoElt /\ es.override # NoComp THEN es.override
                    ELSE inherited_styles
        text_styles == IF recompute THEN computed
                       ELSE IF prev_text_styles # NoComp THEN prev_text_styles
                       ELSE inherited_styles
        same == text_styles = inherited_styles /\ ~txt
        flag == IF ~recompute THEN inherited_styles_changed
                ELSE IF same THEN FALSE
                ELSE prev_text_styles # text_styles
        changed == changed0 \/ flag
    IN [cmds |->
            (IF recompute /\ flag
             THEN <<[op |-> IF same THEN "remove" ELSE "insert", entity |-> entity,
                     value |-> text_styles]>>
             ELSE <<>>)
            \o (IF recompute /\ changed
                THEN <<[op |-> "update", entity |-> entity, value |-> text_styles]>>
                ELSE <<>>),
        seen |-> [visited |-> TRUE, recomputed |-> recompute,
                  inherited |-> inherited_styles, text_styles |-> text_styles,
                  changed |-> flag]]

\* The body of update_element_styles for one node, before it descends:
\* the commands it queues, the text styles and the flag it hands to the
\* children.  Commands are deferred, so prev_text_styles is the cached
\* value from before the pass.
StyleNode(w, entity, inherited_styles, inherited_styles_changed) ==
    LET es == w.ui.elt[entity]
        prev_text_styles == w.ui.cached[entity]
        txt == w.text[entity] # NoText
        changed0 == \/ es # NoElt /\ is_changed(w, es, entity)
                    \/ txt /\ entity \in w.ui.textChanged
        recompute == changed0 \/ inherited_styles_changed
        computed == IF es # NoElt /\ es.override # NoComp THEN es.override
                    ELSE inherited_styles
        text_styles == IF recompute THEN computed
                       ELSE IF prev_text_styles # NoComp THEN prev_text_styles
                       ELSE inherited_styles
        same == text_styles = inherited_styles /\ ~txt
        flag == IF ~recompute THEN inherited_styles_changed
                ELSE IF same THEN prev_text_styles # NoComp
                ELSE prev_text_styles # text_styles
        changed == changed0 \/ flag
    IN [cmds |->
            (IF recompute /\ flag
             THEN <<[op |-> IF same THEN "remove" ELSE "insert", entity |-> entity,
                     value |-> text_styles]>>
             ELSE <<>>)
            \o (IF recompute /\ changed
                THEN <<[op |-> "update", entity |-> entity, value |-> text_styles]>>
                ELSE <<>>),
        seen |-> [visited |-> TRUE, recomputed |-> recompute,
                  inherited |-> inherited_styles, text_styles |-> text_styles,
                  changed |-> flag]]

\* update_element_styles: the node, then its children in order.  acc
\* collects the queued commands and what was found at each node.
RECURSIVE update_element_styles(_, _, _, _, _)
update_element_styles(w, acc, entity, inherited_styles, inherited_styles_changed) ==
    LET r == StyleNode(w, entity, inherited_styles, inherited_styles_changed)
        acc1 == [cmds |-> acc.cmds \o r.cmds,
                 seen |-> [acc.seen EXCEPT ![entity] = r.seen]]
        RECURSIVE Each(_, _)
        Each(a, S) ==
            IF S = {} THEN a
            ELSE LET child == CHOOSE c \in S : \A d \in S : c <= d
                 IN Each(update_element_styles(w, a, child, r.seen.text_styles,
                                               r.seen.changed),
                         S \ {child})
    IN Each(acc1, {c \in w.alive : w.parent[c] = entity})

\* The queued commands, applied in order.
RECURSIVE ApplyCommands(_, _)
ApplyCommands(w, cmds) ==
    IF cmds = <<>> THEN w
    ELSE LET c == Head(cmds)
             w1 == IF c.op = "insert" THEN [w EXCEPT !.ui.cached[c.entity] = c.value]
                   ELSE IF c.op = "remove" THEN [w EXCEPT !.ui.cached[c.entity] = NoComp]
                   ELSE w
         IN ApplyCommands(w1, Tail(cmds))

\* update_styles: every root with the default text styles, then the
\* queued commands.  The result holds the store after the pass, in which
\* nothing counts as changed any more and the current matcher has become
\* the previous one.
update_styles(w) ==
    LET RECURSIVE Each(_, _)
        Each(a, S) ==
            IF S = {} THEN a
            ELSE LET root_node == CHOOSE c \in S : \A d \in S : c <= d
                 IN Each(update_element_styles(w, a, root_node, DefaultTextStyles, FALSE),
                         S \ {root_node})
        acc == Each([cmds |-> <<>>, seen |-> [e \in Ids |-> NotSeen]],
                    {e \in w.alive : w.parent[e] = NoEntity})
        w1 == ApplyCommands(w, acc.cmds)
    IN [w |-> [w1 EXCEPT
                 !.ui.elt = [e \in Ids |->
                                IF w1.ui.elt[e] = NoElt THEN NoElt
                                ELSE [w1.ui.elt[e] EXCEPT !.changed = FALSE]],
                 !.ui.textChanged = {},
                 !.ui.classesChanged = {},
                 !.ui.matcher_prev = w1.ui.matcher],
        cmds |-> acc.cmds,
        seen |-> acc.seen]

(* ---------------------------------------------------------- the driver *)

VARIABLES
    world,      \* the node store, the shared values, and the record of the cycle
    changed,    \* shared values changed since update_views last ran
    added,      \* nodes whose holder component was added since it last ran
    pc,         \* where update_views stands: idle, phase2, phase3, aborted
    v,          \* update_views' v: dirty nodes still to detach
    v2,         \* update_views' v2: detached (node, holder) pairs still to build
    dirty,      \* the dirty list as phase 1 made it
    start,      \* the store as it was when the cycle began
    cycles,     \* cycles run so far
    roots,      \* roots spawned so far
    call        \* the last direct call of an operation: arguments and result

vars == <<world, changed, added, pc, v, v2, dirty, start, cycles, roots, call>>

Range(s) == {s[i] : i \in DOMAIN s}

\* The orders in which a query may yield the nodes of S.
Orders(S) ==
    {s \in [1 .. Cardinality(S) -> S] : \A i, j \in DOMAIN s : i # j => s[i] # s[j]}

\* Mutant of IsDirty: every node that ever read a value counts as changed.
IsDirtyWheneverTracked(w, ch, e) == w.tracked[e] # <<>>

\* tracked.data.iter().any(|x| x.is_changed(world))
IsDirty(w, ch, e) == \E i \in DOMAIN w.tracked[e] : w.tracked[e][i] \in ch

\* Phase 1, first query: nodes with a tracker one of whose probes changed.
TrackedDirty(w, ch) == {e \in w.alive \cap w.hasTracked : IsDirty(w, ch, e)}

\* Phase 1, second query: Added<ViewRoot>.
JustAdded(w, ad) == {e \in w.alive \cap ad : w.handle[e] # NoHandle}

\* Phase 2 for one dirty node: take the holder out of the store.
DetachOne(w, pairs, e) ==
    IF e \in w.alive /\ w.handle[e] # NoHandle
    THEN [w |-> Log([w EXCEPT !.handle[e] = Placeholder], "detach", e, w.handle[e].tag),
          pairs |-> Append(pairs, [e |-> e, handle |-> w.handle[e]])]
    ELSE [w |-> Log(w, "skip", e, "nocomp"), pairs |-> pairs]

\* Mutant of Reattach: the rebuilt holder is never put back.
ReattachForgotten(w, e, h) == Log(w, "drop", e, "driver")

\* Phase 3, after handle.build: put the holder back if the node still has the slot.
Reattach(w, e, h) ==
    IF e \in w.alive /\ w.handle[e] # NoHandle
    THEN Log([w EXCEPT !.handle[e] = h], "attach", e, "driver")
    ELSE Log(w, "drop", e, "driver")

\* Mutant of RebuildOne: an empty slot is unwrapped instead of skipped.
RebuildOneUnwrapped(w, pair) ==
    IF pair.handle = Placeholder
    THEN Panic(w, "called Option::unwrap() on a None value")
    ELSE LET r == HolderBuild(w, pair.handle, pair.e)
         IN IF Panicked(r.w) THEN r.w ELSE Reattach(r.w, pair.e, r.h)

\* Phase 3 for one detached pair.
RebuildOne(w, pair) ==
    IF pair.handle = Placeholder THEN Log(w, "skip", pair.e, "placeholder")
    ELSE LET r == HolderBuild(w, pair.handle, pair.e)
         IN IF Panicked(r.w) THEN r.w ELSE Reattach(r.w, pair.e, r.h)

\* No operation has been called directly.
NoCall == [op |-> "none"]

Init ==
    /\ world = EmptyWorld
    /\ changed = {}
    /\ added = {}
    /\ pc = "idle"
    /\ v = <<>>
    /\ v2 = <<>>
    /\ dirty = <<>>
    /\ start = EmptyWorld
    /\ cycles = 0
    /\ roots = 0
    /\ call = NoCall

\* The props a host may give a root: `closer` is told which holder node to
\* close (an existing one, or itself).
RootProps(w, presenter) ==
    IF presenter = "closer"
    THEN {e \in w.alive : w.handle[e] # NoHandle /\ w.parent[e] = NoEntity} \cup {w.next}
    ELSE {0}

\* The trackers a host may spawn a root with: TrackedResources::default(), or
\* (explored for `label` roots) one already holding a probe: data is public.
RootTrackers(presenter) == IF presenter = "label" THEN {<<>>, <<"A">>} ELSE {<<>>}

\* A host system spawns a root: commands.spawn((TrackedResources, ViewHandle::new(p, props))).
SpawnRootOf(presenters) ==
    /\ pc = "idle"
    /\ cycles < MaxCycles
    /\ roots < MaxRoots
    /\ \E p \in presenters :
        \E props \in RootProps(world, p), trk \in RootTrackers(p) :
            LET id == world.next
                w1 == SpawnNode(world, NoEntity, TRUE, NewViewState(p, props), NoText)
            IN /\ world' = [w1 EXCEPT !.tracked[id] = trk, !.log = <<>>]
               /\ added' = added \cup {id}
    /\ roots' = roots + 1
    /\ UNCHANGED <<call, changed, pc, v, v2, dirty, start, cycles>>

\* Hosts whose views use callbacks too.
SpawnRoot == SpawnRootOf(RootPresenters)

\* Hosts whose views are those whose code is at hand: no callbacks.
SpawnCoreRoot == SpawnRootOf(CorePresenters)

\* A host system mutates a shared value.  No presenter shows the value of B,
\* so only the value of A is kept.
ChangeResource ==
    /\ pc = "idle"
    /\ cycles < MaxCycles
    /\ \E r \in Resources \ changed :
        /\ world' = [world EXCEPT !.res[r] = IF r = "A" THEN 1 - @ ELSE @]
        /\ changed' = changed \cup {r}
    /\ UNCHANGED <<call, added, pc, v, v2, dirty, start, cycles, roots>>

\* update_views, phase 1.
Identify ==
    /\ pc = "idle"
    /\ cycles < MaxCycles
    /\ \E o1 \in Orders(TrackedDirty(world, changed)), o2 \in Orders(JustAdded(world, added)) :
        /\ v' = o1 \o o2
        /\ dirty' = o1 \o o2
        /\ pc' = IF o1 \o o2 = <<>> THEN "phase3" ELSE "phase2"
    /\ start' = world
    /\ v2' = <<>>
    /\ UNCHANGED <<call, world, changed, added, cycles, roots>>

\* Mutant of Detach: one loop that takes a holder and builds it at once.
DetachAndBuild ==
    /\ pc = "phase2"
    /\ v # <<>>
    /\ LET r == DetachOne(world, <<>>, Head(v))
           w2 == IF r.pairs = <<>> THEN r.w ELSE RebuildOne(r.w, r.pairs[1])
       IN /\ world' = w2
          /\ pc' = IF Panicked(w2) THEN "aborted"
                   ELSE IF Tail(v) = <<>> THEN "phase3" ELSE "phase2"
    /\ v' = Tail(v)
    /\ UNCHANGED <<call, changed, added, v2, dirty, start, cycles, roots>>

\* update_views, phase 2, one iteration of the loop.
Detach ==
    /\ pc = "phase2"
    /\ v # <<>>
    /\ LET r == DetachOne(world, v2, Head(v))
       IN /\ world' = r.w
          /\ v2' = r.pairs
    /\ v' = Tail(v)
    /\ pc' = IF Tail(v) = <<>> THEN "phase3" ELSE "phase2"
    /\ UNCHANGED <<call, changed, added, dirty, start, cycles, roots>>

\* update_views, phase 3, one iteration of the loop.
Rebuild ==
    /\ pc = "phase3"
    /\ v2 # <<>>
    /\ world' = RebuildOne(world, Head(v2))
    /\ pc' = IF Panicked(world') THEN "aborted" ELSE "phase3"
    /\ v2' = IF Panicked(world') THEN v2 ELSE Tail(v2)
    /\ UNCHANGED <<call, changed, added, v, dirty, start, cycles, roots>>

\* update_views returns: what changed or was added up to this run is now old.
Finish ==
    /\ pc = "phase3"
    /\ v2 = <<>>
    /\ pc' = "idle"
    /\ changed' = {}
    /\ added' = {}
    /\ cycles' = cycles + 1
    /\ world' = [world EXCEPT !.log = <<>>]
    /\ dirty' = <<>>
    /\ start' = EmptyWorld
    /\ UNCHANGED <<call, v, v2, roots>>

\* An owner of a root's Bind view drops it from its declared shape and razes it.
RazeRoot ==
    /\ pc = "idle"
    /\ cycles < MaxCycles
    /\ \E e \in world.alive :
        /\ world.parent[e] = NoEntity
        /\ world.handle[e].tag = "holder"
        /\ world' = BindRaze(world, e).w
    /\ pc' = IF Panicked(world') THEN "aborted" ELSE "idle"
    /\ UNCHANGED <<call, changed, added, v, v2, dirty, start, cycles, roots>>

Next == SpawnRoot \/ ChangeResource \/ Identify \/ Detach \/ Rebuild \/ Finish

Spec == Init /\ [][Next]_vars

NextCore == SpawnCoreRoot \/ ChangeResource \/ Identify \/ Detach \/ Rebuild \/ Finish

\* The same engine under hosts that use no callback.
SpecCore == Init /\ [][NextCore]_vars

(* ------------------------------------- a text leaf built on its own *)

\* A store of MaxLeaves parentless nodes, some carrying a Text component.
LeafWorld(kinds) ==
    [EmptyWorld EXCEPT
        !.alive = 1 .. MaxLeaves,
        !.text = [e \in Ids |-> IF e \in 1 .. MaxLeaves /\ kinds[e] = "text"
                                THEN <<"old">> ELSE NoText],
        !.next = MaxLeaves + 1]

\* Previous shapes over the nodes of that store: nothing, one node, and
\* fragments (flat, nested, empty) of distinct nodes.
PrevShapes ==
    LET Pairs == {p \in (1 .. MaxLeaves) \X (1 .. MaxLeaves) : p[1] # p[2]}
    IN {Empty, Fragment(<<>>)}
       \cup {Node(i) : i \in 1 .. MaxLeaves}
       \cup {Fragment(<<Node(i)>>) : i \in 1 .. MaxLeaves}
       \cup {Fragment(<<Node(p[1]), Node(p[2])>>) : p \in Pairs}
       \cup {Fragment(<<Node(p[1]), Fragment(<<Node(p[2]), Empty>>)>>) : p \in Pairs}

\* The strings a text view declares.
TextValues == {<<"old">>, <<"new">>}

InitText ==
    /\ \E kinds \in [1 .. MaxLeaves -> {"text", "plain"}] : world = LeafWorld(kinds)
    /\ changed = {}
    /\ added = {}
    /\ pc = "ready"
    /\ v = <<>>
    /\ v2 = <<>>
    /\ dirty = <<>>
    /\ start = EmptyWorld
    /\ cycles = 0
    /\ roots = 0
    /\ call = NoCall

\* A holder builds its text view against a previous shape.
TextBuildCall ==
    /\ pc = "ready"
    /\ \E prev \in PrevShapes, value \in TextValues :
        LET r == TextBuild(world, TextView(value), prev)
        IN /\ world' = r.w
           /\ call' = [op |-> "TextBuild", value |-> value, prev |-> prev,
                       before |-> world, out |-> r.nodes]
    /\ pc' = "called"
    /\ UNCHANGED <<changed, added, v, v2, dirty, start, cycles, roots>>

SpecText == InitText /\ [][TextBuildCall]_vars

\* A host with a single root, drawn from the wider catalogue.
SpawnWideRoot == roots = 0 /\ SpawnRootOf(WidePresenters)

NextWide == SpawnWideRoot \/ ChangeResource \/ Identify \/ Detach \/ Rebuild \/ Finish

SpecWide == Init /\ [][NextWide]_vars

\* A host that owns and razes at most MaxRazeRoots roots.
SpawnRazeRoot == roots < MaxRazeRoots /\ SpawnRootOf(CorePresenters)

NextRaze ==
    SpawnRazeRoot \/ ChangeResource \/ Identify \/ Detach \/ Rebuild \/ Finish \/ RazeRoot

\* Hosts that also raze the roots they own.
SpecRaze == Init /\ [][NextRaze]_vars

\* A host system spawns two roots in one run.
SpawnRootPair ==
    /\ pc = "idle"
    /\ roots = 0
    /\ \E p1 \in CorePresenters, p2 \in CorePresenters :
        LET w1 == SpawnNode(world, NoEntity, TRUE, NewViewState(p1, 0), NoText)
            w2 == SpawnNode(w1, NoEntity, TRUE, NewViewState(p2, 0), NoText)
        IN /\ world' = [w2 EXCEPT !.log = <<>>]
           /\ added' = added \cup {world.next, w1.next}
    /\ roots' = 2
    /\ UNCHANGED <<call, changed, pc, v, v2, dirty, start, cycles>>

NextRazePair ==
    SpawnRootPair \/ ChangeResource \/ Identify \/ Detach \/ Rebuild \/ Finish \/ RazeRoot

\* Hosts that own two roots and raze them independently.
SpecRazePair == Init /\ [][NextRazePair]_vars

(* --------------------------------------- a holder razed by direct calls *)

\* The owner of a root takes its holder out of the store and razes it.
HolderRazeCall ==
    /\ pc = "idle"
    /\ \E e \in world.alive :
        /\ world.parent[e] = NoEntity
        /\ world.handle[e].tag = "holder"
        /\ LET h0 == world.handle[e]
               w0 == RazeTake(world, e)
               r == HolderRaze(w0, h0, e)
           IN /\ world' = r.w
              /\ call' = [op |-> "raze", e |-> e, h0 |-> h0, h |-> r.h,
                          before |-> w0, mid |-> r.w, times |-> 1]
    /\ pc' = IF Panicked(world') THEN "aborted" ELSE "razed"
    /\ UNCHANGED <<changed, added, v, v2, dirty, start, cycles, roots>>

\* The owner razes the same holder once more.
HolderRazeAgain ==
    /\ pc = "razed"
    /\ call.times = 1
    /\ LET r == HolderRaze(world, call.h, call.e)
       IN /\ world' = r.w
          /\ call' = [call EXCEPT !.h = r.h, !.mid = world, !.times = 2]
    /\ UNCHANGED <<pc, changed, added, v, v2, dirty, start, cycles, roots>>

NextRazeTwice ==
    \/ SpawnRazeRoot \/ ChangeResource \/ Identify \/ Detach \/ Rebuild \/ Finish
    \/ HolderRazeCall \/ HolderRazeAgain

\* Hosts that raze a holder they took, possibly twice.
SpecRazeTwice == Init /\ [][NextRazeTwice]_vars

(* ------------------------------------------ NodeSpan values on their own *)

\* The sequences over S of length at most n.
SeqsUpTo(S, n) == UNION {[1 .. k -> S] : k \in 0 .. n}

\* The ways a list of leaves is laid out as a NodeSpan.
Forms == {"node", "flat", "left", "right", "gaps", "hollow"}

Flat(ids) == Fragment([i \in DOMAIN ids |-> Node(ids[i])])

\* The NodeSpan whose leaves are ids, from first to last, laid out as form
\* says; Empty when the form cannot hold that many leaves.
SpanOf(form, ids) ==
    LET n == Len(ids)
    IN CASE form = "node" /\ n = 1 -> Node(ids[1])
         [] form = "flat" -> Flat(ids)
         [] form = "left" /\ n >= 1 ->
                Fragment(<<Flat(SubSeq(ids, 1, n - 1)), Node(ids[n])>>)
         [] form = "right" /\ n >= 1 ->
                Fragment(<<Node(ids[1]), Fragment(<<Flat(SubSeq(ids, 2, n))>>)>>)
         [] form = "gaps" ->
                Fragment([i \in 1 .. 2 * n + 1 |->
                             IF i % 2 = 0 THEN Node(ids[i \div 2]) ELSE Empty])
         [] form = "hollow" /\ n = 0 -> Fragment(<<Empty, Fragment(<<>>)>>)
         [] OTHER -> Empty

\* The forms that can hold n leaves.
FormsFor(n) ==
    {f \in Forms : \/ f \in {"flat", "gaps"}
                   \/ f = "node" /\ n = 1
                   \/ f \in {"left", "right"} /\ n >= 1
                   \/ f = "hollow" /\ n = 0}

\* The lists flatten is asked to extend.
Outs == {<<>>, <<1>>, <<2, 2>>}

\* The NodeSpan values compared with ==.
SpanValues == PrevShapes \cup {SpanOf("gaps", <<1>>), SpanOf("hollow", <<>>)}

InitSpan ==
    /\ world = EmptyWorld
    /\ changed = {}
    /\ added = {}
    /\ pc = "ready"
    /\ v = <<>>
    /\ v2 = <<>>
    /\ dirty = <<>>
    /\ start = EmptyWorld
    /\ cycles = 0
    /\ roots = 0
    /\ call = NoCall

\* span.count() and span.flatten(&mut out) on a span laid out from ids.
FlattenCall ==
    /\ pc = "ready"
    /\ \E ids \in SeqsUpTo(1 .. MaxLeaves, MaxLeaves), out \in Outs :
        \E form \in FormsFor(Len(ids)) :
            LET span == SpanOf(form, ids)
            IN call' = [op |-> "flatten", span |-> span, ids |-> ids, out |-> out,
                        result |-> flatten(span, out), n |-> count(span)]
    /\ pc' = "called"
    /\ UNCHANGED <<world, changed, added, v, v2, dirty, start, cycles, roots>>

\* a == b on two NodeSpan values.
EqCall ==
    /\ pc = "ready"
    /\ \E a \in SpanValues, b \in SpanValues :
        call' = [op |-> "eq", a |-> a, b |-> b, result |-> eq(a, b)]
    /\ pc' = "called"
    /\ UNCHANGED <<world, changed, added, v, v2, dirty, start, cycles, roots>>

NextSpan == FlattenCall \/ EqCall

SpecSpan == InitSpan /\ [][NextSpan]_vars

(* ------------------------------------------- a span despawned on its own *)

\* A store of up to MaxLeaves nodes: each of the ids 1 .. MaxLeaves is "gone"
\* (destroyed earlier), a "root" (alive, no parent) or a "child" (alive,
\* linked under node 1 when that node is alive).
NodeWorld(kinds) ==
    LET live == {e \in 1 .. MaxLeaves : kinds[e] # "gone"}
    IN [EmptyWorld EXCEPT
           !.alive = live,
           !.parent = [e \in Ids |-> IF e \in live /\ e # 1 /\ 1 \in live /\ kinds[e] = "child"
                                     THEN 1 ELSE NoEntity],
           !.next = MaxLeaves + 1]

\* The spans despawned: those of PrevShapes and fragments naming a node twice.
DespawnShapes ==
    PrevShapes \cup {Fragment(<<Node(i), Node(i)>>) : i \in 1 .. MaxLeaves}

InitDespawn ==
    /\ \E kinds \in [1 .. MaxLeaves -> {"gone", "root", "child"}] : world = NodeWorld(kinds)
    /\ changed = {}
    /\ added = {}
    /\ pc = "ready"
    /\ v = <<>>
    /\ v2 = <<>>
    /\ dirty = <<>>
    /\ start = EmptyWorld
    /\ cycles = 0
    /\ roots = 0
    /\ call = NoCall

\* span.despawn_recursive(world)
DespawnCall ==
    /\ pc = "ready"
    /\ \E span \in DespawnShapes :
        /\ world' = despawn_recursive(world, span)
        /\ call' = [op |-> "despawn", span |-> span, before |-> world]
    /\ pc' = "called"
    /\ UNCHANGED <<changed, added, v, v2, dirty, start, cycles, roots>>

SpecDespawn == InitDespawn /\ [][DespawnCall]_vars

\* A text view built over stores in which nodes have been destroyed.
SpecTextGone == InitDespawn /\ [][TextBuildCall]_vars

(* ------------------------------------- a ViewInsert built on its own *)

\* The component values: the one a node may carry already and the one the
\* view declares.
CompValues == {<<"kept">>, <<"declared">>}

InitInsert ==
    /\ \E kinds \in [1 .. MaxLeaves -> {"text", "plain"}], carry \in SUBSET (1 .. MaxLeaves) :
        world = [LeafWorld(kinds) EXCEPT
                    !.comp = [e \in Ids |-> IF e \in carry THEN <<"kept">> ELSE NoComp]]
    /\ changed = {}
    /\ added = {}
    /\ pc = "ready"
    /\ v = <<>>
    /\ v2 = <<>>
    /\ dirty = <<>>
    /\ start = EmptyWorld
    /\ cycles = 0
    /\ roots = 0
    /\ call = NoCall

\* text.insert(component) is built against a previous shape.
InsertBuildCall ==
    /\ pc = "ready"
    /\ \E prev \in PrevShapes, component \in CompValues :
        LET view == InsertView(TextView(<<"new">>), component)
            r == ViewBuild(world, view, NoEntity, NoEntity, prev)
        IN /\ world' = r.w
           /\ call' = [op |-> "InsertBuild", view |-> view, prev |-> prev,
                       before |-> world, mid |-> world, out |-> r.nodes,
                       nodes |-> r.nodes, times |-> 1]
    /\ pc' = "built"
    /\ UNCHANGED <<changed, added, v, v2, dirty, start, cycles, roots>>

\* The same view is built again, against the shape it returned.
InsertBuildAgain ==
    /\ pc = "built"
    /\ call.times = 1
    /\ LET r == ViewBuild(world, call.view, NoEntity, NoEntity, call.out)
       IN /\ world' = r.w
          /\ call' = [call EXCEPT !.mid = world, !.prev = call.out, !.out = r.nodes,
                                  !.nodes = r.nodes, !.times = 2]
    /\ UNCHANGED <<pc, changed, added, v, v2, dirty, start, cycles, roots>>

\* insert_component is run over an output shape of several nodes.
InsertComponentCall ==
    /\ pc = "ready"
    /\ \E nodes \in PrevShapes, component \in CompValues :
        /\ world' = insert_component(world, component, nodes)
        /\ call' = [op |-> "insert_component",
                    view |-> InsertView(UnitView, component), prev |-> Empty,
                    before |-> world, mid |-> world, out |-> nodes,
                    nodes |-> nodes, times |-> 1]
    /\ pc' = "called"
    /\ UNCHANGED <<changed, added, v, v2, dirty, start, cycles, roots>>

NextInsert == InsertBuildCall \/ InsertBuildAgain \/ InsertComponentCall

SpecInsert == InitInsert /\ [][NextInsert]_vars

(* -------------------------------- a ViewInsertBundle driven on its own *)

\* What the inner view may put out: nothing, one node, several nodes.
BundleOutputs ==
    {Empty, Fragment(<<>>), Fragment(<<Node(1), Node(2)>>)}
    \cup {Node(i) : i \in 1 .. MaxLeaves}

\* The bundle a view is declared with.
TheBundle == <<"bundle">>

InitBundle ==
    /\ world = LeafWorld([e \in 1 .. MaxLeaves |-> "plain"])
    /\ changed = {}
    /\ added = {}
    /\ pc = "ready"
    /\ v = <<>>
    /\ v2 = <<>>
    /\ dirty = <<>>
    /\ start = EmptyWorld
    /\ cycles = 0
    /\ roots = 0
    /\ call = NoCall

\* view.build(vc) on a newly declared view.
BundleBuildCall ==
    /\ pc = "ready"
    /\ \E nodes \in BundleOutputs :
        LET r == BundleBuild(world, BundleView(TheBundle), nodes)
        IN /\ world' = r.w
           /\ call' = [op |-> "bundle", step |-> "build", reused |-> FALSE,
                       view |-> r.view, recorded |-> Empty, state |-> r.state,
                       out |-> nodes, before |-> world, updates |-> 0]
    /\ pc' = IF Panicked(world') THEN "aborted" ELSE "built"
    /\ UNCHANGED <<changed, added, v, v2, dirty, start, cycles, roots>>

\* view.update(vc, state): the caller passes the view value it built with,
\* or one declared anew.
BundleUpdateCall ==
    /\ pc = "built"
    /\ call.updates < MaxUpdates
    /\ \E nodes \in BundleOutputs, reused \in BOOLEAN :
        LET view == IF reused THEN call.view ELSE BundleView(TheBundle)
            r == BundleUpdate(world, view, call.state, nodes)
        IN /\ world' = r.w
           /\ call' = [op |-> "bundle", step |-> "update", reused |-> reused,
                       view |-> r.view, recorded |-> call.state, state |-> r.state,
                       out |-> nodes, before |-> world, updates |-> call.updates + 1]
    /\ pc' = IF Panicked(world') THEN "aborted" ELSE "built"
    /\ UNCHANGED <<changed, added, v, v2, dirty, start, cycles, roots>>

NextBundle == BundleBuildCall \/ BundleUpdateCall

SpecBundle == InitBundle /\ [][NextBundle]_vars

(* ------------------------------------------ a Bind view built on its own *)

\* The node a Bind is built under, the owning node its state records, and a
\* text node a holder may have produced.
BindParent == 1

BindOwner == 2

BindLeaf == 3

\* What the slot of the owning node may hold: no ViewHandle, an emptied
\* one, or the holder of a presenter, built before or not.
BindSlots ==
    {NoHandle, Placeholder}
    \cup {[NewViewState(p, 0) EXCEPT !.nodes = n] :
              p \in {"label", "strip"}, n \in {Empty, Node(BindLeaf)}}

BindWorld(slot) ==
    [EmptyWorld EXCEPT
        !.alive = {BindParent, BindOwner, BindLeaf},
        !.parent[BindOwner] = BindParent,
        !.hasTracked = {BindParent, BindOwner},
        !.handle[BindOwner] = slot,
        !.text[BindLeaf] = <<"old">>,
        !.next = BindLeaf + 1]

InitBind ==
    /\ \E slot \in BindSlots : world = BindWorld(slot)
    /\ changed = {}
    /\ added = {}
    /\ pc = "ready"
    /\ v = <<>>
    /\ v2 = <<>>
    /\ dirty = <<>>
    /\ start = EmptyWorld
    /\ cycles = 0
    /\ roots = 0
    /\ call = NoCall

\* View::build of a Bind view with state = Some(owning node), under the
\* parent node.
BindBuildCall ==
    /\ pc = "ready"
    /\ \E prev \in PrevShapes, p \in {"label", "strip"} :
        LET r == ViewBuild(world, BindView(p, 0), BindParent, BindOwner, prev)
        IN /\ world' = r.w
           /\ call' = [op |-> "BindBuild", prev |-> prev, before |-> world,
                       out |-> r.nodes, state |-> r.state]
    /\ pc' = "called"
    /\ UNCHANGED <<changed, added, v, v2, dirty, start, cycles, roots>>

SpecBind == InitBind /\ [][BindBuildCall]_vars

(* ------------------------------------------------- is_changed, called *)

Styled == 1 .. MaxStyled

\* The styled forests: every node is a root or the child of an older node.
StyleTrees ==
    {p \in [Styled -> {NoEntity} \cup Styled] : \A e \in Styled : p[e] < e}

StyledWorld(p) ==
    [EmptyWorld EXCEPT
        !.alive = Styled,
        !.parent = [e \in Ids |-> IF e \in Styled THEN p[e] ELSE NoEntity],
        !.next = MaxStyled + 1]

\* What may differ between the previous and the current frame.
Aspects == {"hover", "focus", "focus_visible", "focus_within", "classes"}

\* The matcher of a frame in which aspect a holds of the nodes S.
MatcherWith(a, S) ==
    Matcher(IF a = "hover" THEN S ELSE {},
            IF a = "focus" THEN S ELSE {},
            IF a = "focus_visible" THEN S ELSE {},
            IF a = "focus_within" THEN S ELSE {})

\* A styled forest in which the nodes `classes` carry a class list and the
\* nodes `S` changed in aspect a since the previous frame.
InitIsChanged ==
    /\ \E p \in StyleTrees, classes \in SUBSET Styled, a \in Aspects,
          S \in {{}} \cup {{e} : e \in Styled} :
        world = [StyledWorld(p) EXCEPT
                    !.ui.classes = classes,
                    !.ui.classesChanged = IF a = "classes" THEN S ELSE {},
                    !.ui.matcher = MatcherWith(a, S)]
    /\ changed = {}
    /\ added = {}
    /\ pc = "ready"
    /\ v = <<>>
    /\ v2 = <<>>
    /\ dirty = <<>>
    /\ start = EmptyWorld
    /\ cycles = 0
    /\ roots = 0
    /\ call = NoCall

\* is_changed for the ElementStyles of one node.
IsChangedCall ==
    /\ pc = "ready"
    /\ \E entity \in Styled, own \in BOOLEAN, depth \in 0 .. MaxStyled,
          uses_hover \in BOOLEAN, uses_focus_within \in BOOLEAN :
        LET es == ElementStyles(NoComp, own, depth, uses_hover, uses_focus_within)
        IN call' = [op |-> "is_changed", entity |-> entity, element_styles |-> es,
                    result |-> is_changed(world, es, entity)]
    /\ pc' = "called"
    /\ UNCHANGED <<world, changed, added, v, v2, dirty, start, cycles, roots>>

SpecIsChanged == InitIsChanged /\ [][IsChangedCall]_vars

(* ---------------------------------------------- update_styles, called *)

\* The text styles a style sheet sets.
StyleValues == {<<"red">>}

\* The ElementStyles of the styled trees: their selectors reach the
\* parent and depend on the hover state.
SheetOf(override) == ElementStyles(override, TRUE, 2, TRUE, FALSE)

\* A freshly spawned forest: every node has a class list, some are text
\* nodes, some carry ElementStyles; every component counts as changed and
\* nothing is cached.
InitStyle ==
    /\ \E p \in StyleTrees, texts \in SUBSET Styled,
          sheets \in [Styled -> {NoElt} \cup {SheetOf(o) : o \in {NoComp} \cup StyleValues}] :
        world = [StyledWorld(p) EXCEPT
                    !.text = [e \in Ids |-> IF e \in texts THEN <<"text">> ELSE NoText],
                    !.ui.elt = [e \in Ids |-> IF e \in Styled THEN sheets[e] ELSE NoElt],
                    !.ui.textChanged = texts,
                    !.ui.classes = Styled]
    /\ changed = {}
    /\ added = {}
    /\ pc = "ready"
    /\ v = <<>>
    /\ v2 = <<>>
    /\ dirty = <<>>
    /\ start = EmptyWorld
    /\ cycles = 0
    /\ roots = 0
    /\ call = NoCall

\* One run of the update_styles system: over the fresh forest, and once
\* more after the application changed something.
UpdateStylesCall ==
    /\ pc \in {"ready", "edited"}
    /\ LET r == update_styles(world)
       IN /\ world' = r.w
          /\ call' = [op |-> "update_styles", before |-> world, cmds |-> r.cmds,
                      seen |-> r.seen]
    /\ pc' = IF pc = "ready" THEN "styled" ELSE "restyled"
    /\ UNCHANGED <<changed, added, v, v2, dirty, start, cycles, roots>>

\* The application replaces the style sets of a node.
SetStyles ==
    /\ pc = "styled"
    /\ \E e \in Styled, o \in {NoComp} \cup StyleValues :
        /\ world.ui.elt[e] # NoElt
        /\ world.ui.elt[e].override # o
        /\ world' = [world EXCEPT !.ui.elt[e] = SheetOf(o)]
    /\ pc' = "edited"
    /\ UNCHANGED <<changed, added, v, v2, dirty, start, cycles, roots, call>>

\* The application changes the text of a text node.
SetText ==
    /\ pc = "styled"
    /\ \E e \in Styled :
        /\ world.text[e] # NoText
        /\ e \notin world.ui.textChanged
        /\ world' = [world EXCEPT !.ui.textChanged = @ \cup {e}]
    /\ pc' = "edited"
    /\ UNCHANGED <<changed, added, v, v2, dirty, start, cycles, roots, call>>

\* The pointer moves onto a node or off every node.
Hover ==
    /\ pc = "styled"
    /\ \E S \in {{}} \cup {{e} : e \in Styled} :
        /\ world.ui.matcher.hovering # S
        /\ world' = [world EXCEPT !.ui.matcher.hovering = S]
    /\ pc' = "edited"
    /\ UNCHANGED <<changed, added, v, v2, dirty, start, cycles, roots, call>>

NextStyle == UpdateStylesCall \/ SetStyles \/ SetText \/ Hover

SpecStyle == InitStyle /\ [][NextStyle]_vars

(* ------------------------------------------- vocabulary of the properties *)

\* update_views has run its three phases and is about to return.
CycleDone == pc = "phase3" /\ v2 = <<>>

\* update_views was cut short by a panic.
Aborted == pc = "aborted"

\* Positions of the record of the cycle holding event ev about node e.
Events(ev, e) == {i \in DOMAIN world.log : world.log[i].ev = ev /\ world.log[i].e = e}

\* Positions at which some ViewState::build began.
AllBegins == {i \in DOMAIN world.log : world.log[i].ev = "begin"}

\* e carried a holder (Some) when the cycle began.
HadHolder(e) == e \in start.alive /\ start.handle[e].tag = "holder"

\* The nodes above e when the cycle began.
RECURSIVE AncestorsAtStart(_)
AncestorsAtStart(e) ==
    IF e = NoEntity \/ start.parent[e] = NoEntity THEN {}
    ELSE {start.parent[e]} \cup AncestorsAtStart(start.parent[e])

\* One of the two is nested in the other, or they are the same node.
Related(a, b) == a = b \/ a \in AncestorsAtStart(b) \/ b \in AncestorsAtStart(a)

\* The tracker of e, as the cycle found it, holds a probe of a changed value.
ReadChanged(e) ==
    /\ e \in start.alive \cap start.hasTracked
    /\ \E i \in DOMAIN start.tracked[e] : start.tracked[e][i] \in changed

\* The holder component of e was added since the previous cycle.
NewlyCreated(e) == e \in start.alive \cap added /\ start.handle[e] # NoHandle

(* ----------------------------------------------------------------- C7 *)

\* A holder node and a holder node nested directly in it were both put on the
\* dirty list of the running cycle.
BothDirty(p, c) ==
    /\ p \in Range(dirty) /\ c \in Range(dirty)
    /\ HadHolder(p) /\ HadHolder(c)
    /\ start.parent[c] = p

\* C7: when a presenter subtree and one nested in it are both dirty in the
\* same cycle, the cycle does not abort, and once it has run both holders
\* are attached to their nodes and the nested one was built.
C7_NestedDirtyCompletes ==
    \A p, c \in Ids :
        BothDirty(p, c) =>
            /\ ~Aborted
            /\ CycleDone =>
                /\ SlotTag(world, p) = "holder"
                /\ SlotTag(world, c) = "holder"
                /\ Events("begin", c) # {}

(* ----------------------------------------------------------------- C1 *)

\* e is nested under a node whose subtree the cycle rebuilds.
UnderRebuilt(e) == \E a \in AncestorsAtStart(e) : ReadChanged(a) \/ NewlyCreated(a)

\* C1, first half: a holder node none of whose read values changed, not newly
\* created and not nested under a rebuilt subtree, is neither detached nor
\* built in the cycle.
GatedOut ==
    \A e \in Ids :
        (HadHolder(e) /\ ~ReadChanged(e) /\ ~NewlyCreated(e) /\ ~UnderRebuilt(e)) =>
            Events("detach", e) = {} /\ Events("begin", e) = {}

\* C1, second half: a holder node one of whose read values changed has its
\* holder built by the time the cycle ends, however it ends.
GatedIn ==
    (CycleDone \/ Aborted) =>
        \A e \in Ids : (HadHolder(e) /\ ReadChanged(e)) => Events("end", e) # {}

\* C1: dependency gating in update_views, both halves.
C1_DependencyGating == GatedOut /\ GatedIn

(* ----------------------------------------------------------------- C6 *)

\* C6: every cycle of update_views runs to its end, and every holder detached
\* in phase 2 has had its build invoked exactly once when the cycle ends.
C6_TerminatesBuiltOnce ==
    /\ ~Aborted
    /\ CycleDone =>
        \A e \in Ids :
            (\E i \in Events("detach", e) : world.log[i].info = "holder") =>
                Cardinality(Events("begin", e)) = 1

(* ----------------------------------------------------------------- C8 *)

\* The pair update_views is processing belongs to a node that was destroyed
\* after its holder was detached.
DestroyedWhileDetached ==
    /\ pc \in {"phase3", "aborted"}
    /\ v2 # <<>>
    /\ Head(v2).handle # Placeholder
    /\ Head(v2).e \notin world.alive

\* C8: a dirty node destroyed between detach and reattach is handled without
\* failure: processing its pair does not abort the cycle, the holder is not
\* put back and the remaining pairs are processed.
C8_DestroyedNodeSkipped ==
    /\ DestroyedWhileDetached => ~Aborted
    /\ CycleDone =>
        \A e \in Ids :
            (Events("detach", e) # {} /\ e \notin world.alive) =>
                Events("attach", e) = {} \/ Events("despawn", e) # {}

(* ---------------------------------------------------------------- C10 *)

Independent(e) ==
    \A d \in start.alive : Related(d, e) => ~ReadChanged(d) /\ ~NewlyCreated(d)

\* The holder of e, its tracker and the nodes it produced are as the cycle
\* found them.
Untouched(e) ==
    /\ world.handle[e] = start.handle[e]
    /\ world.tracked[e] = start.tracked[e]
    /\ \A n \in Range(flatten(start.handle[e].nodes, <<>>)) :
        n \in world.alive /\ world.text[n] = start.text[n]

\* C2: sibling isolation.  Throughout a cycle, a presenter subtree that
\* depends on no changed value keeps its holder (props, state, cached shape),
\* its tracker and the nodes it produced, while subtrees beside it are
\* rebuilt; and every presenter the cycle invokes belongs to a subtree that
\* does depend on a changed value or is new.
C2_SiblingIsolation ==
    /\ \A e \in world.alive : (HadHolder(e) /\ Independent(e)) => Untouched(e)
    /\ \A i \in DOMAIN world.log :
        world.log[i].ev = "presenter" /\ world.log[i].e \in start.alive =>
            ~Independent(world.log[i].e)

\* Two roots built in an earlier cycle; one value changed, which only one of
\* them read; that one was rebuilt, the other is as it was.
C2_Witness ==
    /\ CycleDone
    /\ \E d, e \in world.alive :
        /\ d # e
        /\ start.parent[d] = NoEntity /\ start.parent[e] = NoEntity
        /\ HadHolder(d) /\ HadHolder(e)
        /\ start.handle[d].nodes # Empty /\ start.handle[e].nodes # Empty
        /\ start.tracked[e] # <<>>
        /\ ReadChanged(d) /\ Independent(e)
        /\ Events("end", d) # {} /\ Events("attach", d) # {}
        /\ world.tracked[d] # start.tracked[d]
        /\ Untouched(e)

(* ----------------------------------------------------------------- C3 *)

\* The holder that is on e now is the one the cycle found there, rebuilt:
\* same presenter and props, the owning node recorded in its state kept, the
\* cached shape kept where the rebuild reused it.
SameHolderRebuilt(e) ==
    /\ world.handle[e].tag = "holder"
    /\ world.handle[e].presenter = start.handle[e].presenter
    /\ world.handle[e].props = start.handle[e].props
    /\ start.handle[e].state # NoEntity => world.handle[e].state = start.handle[e].state
    /\ start.handle[e].nodes # Empty => world.handle[e].nodes = start.handle[e].nodes
    /\ world.handle[e].view = ViewOf(start.handle[e].presenter, start.handle[e].props, world.res)

\* C3: detach/reattach safety.  After every completed cycle, each dirty node
\* that still exists and carried a holder carries that holder again, not the
\* placeholder, with the presenter, props, state and cached shape it had
\* but for what the rebuild set.
C3_ReattachedIntact ==
    CycleDone =>
        \A e \in Range(dirty) : (e \in world.alive /\ HadHolder(e)) => SameHolderRebuilt(e)

\* A cycle rebuilt a holder that had been built before, and it is back.
C3_Witness ==
    /\ CycleDone
    /\ \E e \in Range(dirty) :
        /\ e \in world.alive /\ HadHolder(e)
        /\ start.handle[e].nodes # Empty
        /\ Events("detach", e) # {} /\ Events("end", e) # {}
        /\ SameHolderRebuilt(e)
        /\ world.tracked[e] # start.tracked[e]

(* ----------------------------------------------------------------- C4 *)

\* C4: whenever a ViewState::build runs, started by phase 3 or by a parent's
\* Bind::build, the holder is not in the store: from before the build begins
\* until after it returns, the slot on the owning node, as long as that node
\* exists, holds the placeholder, and nothing is put into it.
C4_BuildOutsideStore ==
    \A i \in AllBegins :
        LET e == world.log[i].e
        IN /\ world.log[i].info \in {"placeholder", "gone"}
           /\ \A j \in Events("end", e) : world.log[j].info \in {"placeholder", "gone"}
           /\ \A k \in Events("attach", e) :
                k > i => \E j \in Events("end", e) : i < j /\ j < k
           /\ (Events("end", e) \cap (i + 1 .. Len(world.log)) = {} /\ e \in world.alive) =>
                world.handle[e] = Placeholder

\* A cycle in which phase 3 built a holder whose view built a nested holder,
\* both from an emptied slot, and both were put back.
C4_Witness ==
    /\ CycleDone
    /\ \E p, c \in world.alive :
        /\ world.parent[c] = p
        /\ \E i \in Events("begin", p), j \in Events("begin", c), k \in Events("end", c) :
            /\ i < j /\ j < k
            /\ world.log[i].info = "placeholder"
            /\ world.log[j].info = "placeholder"
            /\ world.log[k].info = "placeholder"
        /\ \E i \in Events("take", c), j \in Events("attach", c) : i < j
        /\ world.handle[p].tag = "holder" /\ world.handle[c].tag = "holder"

(* ----------------------------------------------------------------- C5 *)

\* C5: all dirty holders are detached before the first is rebuilt.  Phase 3
\* starts with phase 2 finished, and when any build begins every node of the
\* dirty list that has a holder slot has been through Detach, so none still
\* has its holder in the store.
C5_DetachBeforeBuild ==
    /\ pc \in {"phase3", "aborted"} => v = <<>>
    /\ \A i \in AllBegins :
        \A e \in Range(dirty) :
            (e \in start.alive /\ start.handle[e] # NoHandle) =>
                \E j \in Events("detach", e) : j < i
    /\ (pc = "phase3" /\ AllBegins = {}) =>
        \A e \in Range(dirty) : SlotTag(world, e) # "holder"

\* Phase 3 is building, and the dirty list held several holder nodes.
C5_Witness ==
    /\ pc = "phase3"
    /\ AllBegins # {}
    /\ v2 # <<>>
    /\ \E d, e \in Range(dirty) :
        /\ d # e
        /\ HadHolder(d) /\ HadHolder(e)
        /\ Events("detach", d) # {} /\ Events("detach", e) # {}
        /\ Events("begin", d) # {} /\ Events("begin", e) = {}
        /\ world.handle[e] = Placeholder

(* ----------------------------------------------------------------- C9 *)

\* The store proper, without the record of the cycle.
Store(w) == [w EXCEPT !.log = <<>>]

\* Phase 2 reaches a node that has no holder component.
NoSlotAtDetach == pc = "phase2" /\ v # <<>> /\ SlotTag(world, Head(v)) \in {"none", "gone"}

\* Phase 2 reaches a node whose slot already holds the placeholder.
EmptySlotAtDetach == pc = "phase2" /\ v # <<>> /\ SlotTag(world, Head(v)) = "placeholder"

\* Phase 3 reaches a pair whose holder is None.
EmptyPairAtRebuild == pc = "phase3" /\ v2 # <<>> /\ Head(v2).handle = Placeholder

\* C9: a dirty node without holder component at Detach, or whose slot already
\* holds the placeholder, is skipped: the step that meets it changes nothing
\* in the store, begins no build, and the cycle goes on; a node that had no
\* holder component is never built and gets none in the cycle.
C9_SkippedWithoutHolder ==
    /\ [][/\ NoSlotAtDetach =>
                /\ Store(world') = Store(world)
                /\ v2' = v2 /\ v' = Tail(v) /\ pc' # "aborted"
          /\ EmptySlotAtDetach =>
                /\ Store(world') = Store(world)
                /\ v2' = Append(v2, [e |-> Head(v), handle |-> Placeholder])
                /\ v' = Tail(v) /\ pc' # "aborted"
          /\ EmptyPairAtRebuild =>
                /\ Store(world') = Store(world)
                /\ AllBegins' = AllBegins
                /\ v2' = Tail(v2) /\ pc' = "phase3"]_vars
    /\ [](\A e \in Range(dirty) :
            (e \in start.alive /\ start.handle[e] = NoHandle) =>
                /\ Events("begin", e) = {} /\ Events("attach", e) = {}
                /\ e \in world.alive => world.handle[e] = NoHandle)

\* A cycle that skipped a node without holder component and a pair whose slot
\* had already been emptied.
C9_Witness ==
    /\ CycleDone
    /\ \E i, j \in DOMAIN world.log :
        /\ world.log[i].ev = "skip" /\ world.log[i].info = "nocomp"
        /\ world.log[j].ev = "skip" /\ world.log[j].info = "placeholder"

(* ---------------------------------------------------------------- C14 *)

\* The stretches of the record of the cycle spanned by one build of e.
BuildSpans(e) ==
    {sp \in Events("begin", e) \X Events("end", e) :
        /\ sp[1] < sp[2]
        /\ \A k \in Events("end", e) : ~(sp[1] < k /\ k < sp[2])}

\* The holder of e was built before this cycle and again in it, its presenter
\* returned the view it returned before, and no presenter nested in e had
\* read a value that changed: an unchanged view was built once more against
\* the state and shape its previous build produced.
RebuiltUnchanged(e) ==
    /\ HadHolder(e)
    /\ start.handle[e].view.kind # "none"
    /\ BuildSpans(e) # {}
    /\ e \in world.alive
    /\ world.handle[e].tag = "holder"
    /\ world.handle[e].view = start.handle[e].view
    /\ \A d \in Descendants(start, {e}) \ {e} : ~ReadChanged(d)

\* C14: idempotence.  Building an unchanged view again, with no dependency
\* change, against the shape and state of its previous build yields an equal
\* shape and creates and destroys no node.
C14_Idempotence ==
    CycleDone =>
        \A e \in Ids :
            RebuiltUnchanged(e) =>
                /\ world.handle[e].nodes = start.handle[e].nodes
                /\ \A sp \in BuildSpans(e) :
                       \A k \in sp[1] .. sp[2] :
                           world.log[k].ev \notin {"spawn", "despawn"}

(* ---------------------------------------------------------------- C11 *)

\* The owning nodes of the holders razed so far.
RazedOwners == {world.razed[i].e : i \in DOMAIN world.razed}

\* C11: Razed is terminal.  Once a holder has been razed, no later operation
\* (a parent's build, a later cycle of update_views) begins a build of it:
\* no ViewState::build ever begins at the owning node of a razed holder.
C11_RazedIsTerminal ==
    \A i \in AllBegins : world.log[i].e \notin RazedOwners

\* A holder that had been built was razed, and a value its node had read then
\* changed: a later cycle put the node on its dirty list, found the slot
\* empty, and ran to its end.
C11_Witness ==
    /\ CycleDone
    /\ \E e \in RazedOwners :
        /\ \E j \in DOMAIN world.razed :
            world.razed[j].e = e /\ world.razed[j].leaves # <<>>
        /\ e \in Range(dirty)
        /\ ReadChanged(e)
        /\ \E i \in Events("skip", e) : world.log[i].info = "placeholder"

(* ---------------------------------------------------------------- C12 *)

\* The holder nodes in the subtree below (and including) node e.
HoldersUnder(e) == {d \in Descendants(world, {e}) : world.handle[d] # NoHandle}

\* How many times the holder owned by node d has been razed.
RazeCount(d) == Cardinality({j \in DOMAIN world.razed : world.razed[j].e = d})

\* C12: raze completeness.  After a raze of a holder whose cached shape was p,
\* no node of flatten(p) exists in the store, and every holder nested in the
\* razed subtree has been razed exactly once.
C12_RazeComplete ==
    \A i \in DOMAIN world.razed :
        /\ \A n \in Range(world.razed[i].leaves) : n \notin world.alive
        /\ \A d \in HoldersUnder(world.razed[i].e) : RazeCount(d) = 1

(* ---------------------------------------------------------------- C13 *)

\* C13: raze leaves no dangling nodes.  After a presenter view is razed, none
\* of the nodes its builds created exists: neither the leaves of its shape
\* nor the owning nodes spawned below it on first builds.
C13_NoDanglingNodes ==
    \A i \in DOMAIN world.razed :
        /\ \A n \in Range(world.razed[i].leaves) : n \notin world.alive
        /\ Descendants(world, {world.razed[i].e}) \subseteq {world.razed[i].e}
        /\ world.parent[world.razed[i].e] # NoEntity => world.razed[i].e \notin world.alive

(* ---------------------------------------------------------------- C17 *)

\* The holder owned by node e, wherever it is: in its slot, or in the
\* driver's list of detached pairs.
HolderAt(w, pairs, e) ==
    IF e \in w.alive /\ w.handle[e].tag = "holder" THEN w.handle[e]
    ELSE IF \E i \in DOMAIN pairs : pairs[i].e = e /\ pairs[i].handle.tag = "holder"
    THEN pairs[CHOOSE i \in DOMAIN pairs :
                   pairs[i].e = e /\ pairs[i].handle.tag = "holder"].handle
    ELSE NoHandle

\* The nodes parented directly under e.
Kids(w, e) == {c \in w.alive : w.parent[c] = e}

\* The holder of e has a Bind as its view and the Bind's state names a node.
BoundTo(h) == h.tag = "holder" /\ h.view.kind = "bind" /\ h.state # NoEntity

\* C17: a Bind spawns its owning node on its first build only.  The first
\* build creates exactly one node under the caller's node, carrying a holder
\* for the bound presenter and props and a tracker that was empty before the
\* presenter ran, and records its id in the state; every later build with
\* that state creates no node under the caller and keeps the recorded id.
C17_BindSpawnsOnce ==
    [][\A e \in Ids :
          LET h == HolderAt(world, v2, e)
              h2 == HolderAt(world', v2', e)
              c == h2.state
          IN (h.tag = "holder" /\ BoundTo(h2)) =>
                IF BoundTo(h)
                THEN h2.state = h.state /\ Kids(world', e) = Kids(world, e)
                ELSE /\ c \notin world.alive
                     /\ Kids(world', e) \ Kids(world, e) = {c}
                     /\ c \in world'.hasTracked
                     /\ world'.handle[c].tag = "holder"
                     /\ world'.handle[c].presenter = h2.view.presenter
                     /\ world'.handle[c].props = h2.view.props
                     /\ world'.tracked[c] =
                            Reads(h2.view.presenter, h2.view.props, world'.res)]_vars

\* A holder whose Bind had recorded its node was built again, and the cycle
\* ran to its end.
C17_Witness ==
    /\ CycleDone
    /\ \E e \in Ids :
        /\ HadHolder(e)
        /\ BoundTo(start.handle[e])
        /\ BuildSpans(e) # {}
        /\ BoundTo(HolderAt(world, v2, e))

(* ---------------------------------------------------------------- C18 *)

\* C18: every build of a presenter view invokes the presenter with the props
\* of the view descriptor being built.  After a build of a holder whose view
\* is a Bind, the nested holder's presenter has run with the props that Bind
\* declares: the view it returned is the one the presenter returns for them.
C18_FreshProps ==
    CycleDone =>
        \A e \in Ids :
            LET h == HolderAt(world, v2, e)
                c == h.state
            IN (BuildSpans(e) # {} /\ BoundTo(h) /\ c \in world.alive
                    /\ world.handle[c].tag = "holder") =>
                  /\ world.handle[c].props = h.view.props
                  /\ world.handle[c].view =
                        ViewOf(world.handle[c].presenter, h.view.props, world.res)

(* ---------------------------------------------------------------- C19 *)

\* C19: after each build of a presenter subtree its tracker holds probes for
\* exactly the values read during that build (read here as a set, the weakest
\* sense), and the tracker of a holder not yet built is empty.
C19_TrackerExact ==
    CycleDone =>
        \A e \in world.alive \cap world.hasTracked :
            LET h == world.handle[e]
            IN /\ (h.tag = "holder" /\ h.view.kind = "none") => world.tracked[e] = <<>>
               /\ (h.tag = "holder" /\ BuildSpans(e) # {}) =>
                     Range(world.tracked[e]) = Range(Reads(h.presenter, h.props, world.res))

(* ---------------------------------------------------------------- C20 *)

\* Shapes a caller may pass to nodes().
SomeShapes == {Empty, Node(1), Fragment(<<Node(1), Empty>>)}

\* C20: a holder caches its output.  Before its first build the cached shape
\* is Empty and count() is 0.  After a build the cached shape is what building
\* the presenter's view returned (for a text view the node showing its text,
\* for a Bind the shape of the nested holder), the build having been given the
\* previously cached shape (a text node is kept from build to build);
\* nodes(p) is the cached shape for every p and count() is its leaf count.
C20_HolderCaches ==
    \A e \in world.alive :
        LET h == world.handle[e]
        IN h.tag = "holder" =>
            /\ \A p \in SomeShapes : AnyViewState_nodes(h, p) = h.nodes
            /\ AnyViewState_count(h) = Len(flatten(h.nodes, <<>>))
            /\ h.view.kind = "none" => (h.nodes = Empty /\ AnyViewState_count(h) = 0)
            /\ h.view.kind = "text" =>
                  /\ h.nodes.kind = "Node"
                  /\ h.nodes.entity \in world.alive
                  /\ world.text[h.nodes.entity] = h.view.value
                  /\ AnyViewState_count(h) = 1
            /\ (BoundTo(h) /\ h.state \in world.alive
                    /\ world.handle[h.state].tag = "holder") =>
                  h.nodes = world.handle[h.state].nodes
            /\ (h.view.kind = "text" /\ HadHolder(e)
                    /\ start.handle[e].nodes.kind = "Node") =>
                  h.nodes = start.handle[e].nodes

\* In one finished cycle a holder with a text view was built a second time
\* and a holder with a Bind view holds the shape of its nested holder.
C20_Witness ==
    /\ CycleDone
    /\ \E e \in world.alive :
        /\ HadHolder(e)
        /\ start.handle[e].nodes.kind = "Node"
        /\ BuildSpans(e) # {}
        /\ world.handle[e].tag = "holder"
        /\ world.handle[e].view.kind = "text"
        /\ world.handle[e].view # start.handle[e].view
    /\ \E e \in world.alive :
        /\ BoundTo(world.handle[e])
        /\ world.handle[e].nodes.kind = "Node"

(* ---------------------------------------------------------------- C15 *)

\* The previous shape of the call is a single node that carries a text.
PrevIsTextNode ==
    /\ call.op = "TextBuild"
    /\ call.prev.kind = "Node"
    /\ call.before.text[call.prev.entity] # NoText

\* C15: text leaf reuse.  Built against Node(n), n carrying a text, a text view
\* returns Node(n), sets the text of n to the declared string, and creates or
\* destroys no node.
C15_TextLeafReuse ==
    PrevIsTextNode =>
        /\ call.out = call.prev
        /\ world.text[call.prev.entity] = call.value
        /\ world.alive = call.before.alive
        /\ world.next = call.before.next

\* A text node showing one string was rebuilt to show another.
C15_Witness ==
    /\ PrevIsTextNode
    /\ call.before.text[call.prev.entity] # call.value
    /\ world.text[call.prev.entity] = call.value

(* ---------------------------------------------------------------- C16 *)

\* The leaves of the previous shape of the call.
PrevLeaves == Range(flatten(call.prev, <<>>))

\* C16: text leaf replacement.  Built against a previous shape that is not a
\* single text-carrying node, a text view returns Node(m) for a node m created
\* by the build and not among the leaves of the previous shape, m carries the
\* declared string, and every leaf of the previous shape is destroyed.
C16_TextLeafReplacement ==
    (call.op = "TextBuild" /\ ~PrevIsTextNode) =>
        /\ call.out.kind = "Node"
        /\ call.out.entity \notin PrevLeaves
        /\ call.out.entity \notin call.before.alive
        /\ world.alive \ call.before.alive = {call.out.entity}
        /\ world.text[call.out.entity] = call.value
        /\ \A n \in PrevLeaves : n \notin world.alive

\* A fragment of two nodes, one of them with a text, was replaced.
C16_Witness ==
    /\ call.op = "TextBuild"
    /\ call.prev.kind = "Fragment"
    /\ Cardinality(PrevLeaves) = 2
    /\ \E n \in PrevLeaves : call.before.text[n] # NoText
    /\ call.out.kind = "Node"
    /\ call.out.entity \in world.alive
(* ------------------------------------------------------------------ C21 *)

\* The store without the records kept for the properties.
Nodes(w) == [w EXCEPT !.log = <<>>, !.razed = <<>>]

\* The nodes a direct call destroyed, in order.
DespawnedSince(before) ==
    LET RECURSIVE Pick(_)
        Pick(i) ==
            IF i > Len(world.log) THEN <<>>
            ELSE IF world.log[i].ev = "despawn" THEN <<world.log[i].e>> \o Pick(i + 1)
            ELSE Pick(i + 1)
    IN Pick(Len(before.log) + 1)

LiveHolders ==
    {HolderAt(world, v2, e) : e \in world.alive \cap Ids} \ {NoHandle}

\* C22: no dangling reference.  Whatever builds, cycles and razes have
\* completed, every node id in the cached shape of a holder that has not
\* been razed, and every owning-node id its view state records, names a
\* node that exists in the store.
C22_NoDanglingReference ==
    ~Aborted =>
        \A h \in LiveHolders :
            /\ Range(flatten(h.nodes, <<>>)) \subseteq world.alive
            /\ h.state # NoEntity => h.state \in world.alive

\* After the raze of a built root and a later cycle, a holder caches a leaf and records the
\* owning node of a nested presenter.
C22_Witness ==
    /\ CycleDone
    /\ \E j \in DOMAIN world.razed : world.razed[j].leaves # <<>>
    /\ \E h \in LiveHolders : h.state # NoEntity /\ flatten(h.nodes, <<>>) # <<>>

(* ------------------------------------------------------------------ C23 *)

\* C23: after every completed build of a presenter subtree, count() of the
\* holder's cached shape and the length of its flatten() list equal the
\* number of child nodes the subtree has in the store, that is, of nodes
\* the store links under the subtree's owning node.
C23_CountMatchesChildren ==
    CycleDone /\ ~Aborted =>
        \A e \in world.alive :
            (world.handle[e].tag = "holder" /\ world.handle[e].view.kind # "none") =>
                /\ count(world.handle[e].nodes) = Cardinality(Kids(world, e))
                /\ Len(flatten(world.handle[e].nodes, <<>>)) = Cardinality(Kids(world, e))

(* ------------------------------------------------------------------ C24 *)

\* C24: flatten(s, out) appends to out exactly the leaf ids of s, in
\* depth-first left-to-right order, keeps what out held as a prefix, and
\* appends count(s) ids.
C24_FlattenAppendsLeaves ==
    call.op = "flatten" =>
        /\ call.result = call.out \o call.ids
        /\ Len(call.result) - Len(call.out) = call.n
        /\ call.n = Len(call.ids)

\* A nested fragment with two leaves below its first level has been
\* flattened onto a list that was not empty.
C24_Witness ==
    /\ call.op = "flatten"
    /\ call.out # <<>>
    /\ call.span.kind = "Fragment"
    /\ \E i \in DOMAIN call.span.nodes :
            call.span.nodes[i].kind = "Fragment" /\ count(call.span.nodes[i]) >= 2
    /\ call.n = MaxLeaves

(* ------------------------------------------------------------------ C25 *)

\* C25: NodeSpan equality is structural.  Empty equals only Empty; Node(a)
\* equals Node(b) exactly when a = b; two fragments are equal exactly when
\* they have the same length and equal elements position by position; two
\* values of different variants are never equal, an empty fragment and
\* Empty included.
C25_StructuralEquality ==
    call.op = "eq" =>
        LET a == call.a
            b == call.b
        IN /\ a.kind # b.kind => ~call.result
           /\ (a.kind = "Empty" /\ b.kind = "Empty") => call.result
           /\ (a.kind = "Node" /\ b.kind = "Node") =>
                    (call.result <=> a.entity = b.entity)
           /\ (a.kind = "Fragment" /\ b.kind = "Fragment") =>
                    (call.result <=>
                        /\ Len(a.nodes) = Len(b.nodes)
                        /\ \A i \in DOMAIN a.nodes : a.nodes[i] = b.nodes[i])

\* Two fragments of different lengths that agree on their common prefix
\* have been compared.
C25_Witness ==
    /\ call.op = "eq"
    /\ call.a.kind = "Fragment"
    /\ call.b.kind = "Fragment"
    /\ Len(call.a.nodes) < Len(call.b.nodes)
    /\ call.a.nodes # <<>>
    /\ \A i \in DOMAIN call.a.nodes : call.a.nodes[i] = call.b.nodes[i]

(* ------------------------------------------------------------------ C26 *)

\* C26: despawn_recursive has no error condition.  For every span and every
\* store, a span naming a node twice, a leaf below an earlier leaf and a
\* leaf destroyed earlier included, the call completes without failure and
\* afterwards no id of flatten(span) exists in the store.
C26_DespawnNeverFails ==
    call.op = "despawn" =>
        /\ ~Panicked(world)
        /\ Range(flatten(call.span, <<>>)) \cap world.alive = {}

(* ------------------------------------------------------------------ C27 *)

\* The nodes given a component between the store `before` and now, in order.
InsertedSince(before) ==
    LET RECURSIVE Pick(_)
        Pick(i) ==
            IF i > Len(world.log) THEN <<>>
            ELSE IF world.log[i].ev = "insert" THEN <<world.log[i].e>> \o Pick(i + 1)
            ELSE Pick(i + 1)
    IN Pick(Len(before.log) + 1)

\* C27: after a ViewInsert is built, every leaf of the shape it returns
\* carries the component; a leaf that carried one before keeps its value;
\* the shape returned is the shape the inner view returns; and building
\* again inserts nothing further.
C27_InsertIsIdempotent ==
    (call.op \in {"InsertBuild", "insert_component"} /\ ~Panicked(world)) =>
        LET leaves == Range(flatten(call.out, <<>>))
        IN /\ \A e \in leaves : e \in world.alive /\ world.comp[e] # NoComp
           /\ \A e \in world.alive \cap call.mid.alive :
                    call.mid.comp[e] # NoComp => world.comp[e] = call.mid.comp[e]
           /\ \A e \in Range(InsertedSince(call.mid)) :
                    e \in leaves /\ world.comp[e] = call.view.component
           /\ call.op = "InsertBuild" =>
                    call.out = TextBuild(call.mid, call.view.inner, call.prev).nodes
           /\ call.times = 2 =>
                    /\ InsertedSince(call.mid) = <<>>
                    /\ world.comp = call.mid.comp
                    /\ call.out = call.prev

\* A ViewInsert has been built twice over a text node that carried no
\* component, its first build having inserted the declared one.
C27_Witness ==
    /\ call.op = "InsertBuild"
    /\ call.times = 2
    /\ \E i \in DOMAIN world.log : world.log[i].ev = "insert"
    /\ \A e \in Range(flatten(call.out, <<>>)) : world.comp[e] = call.view.component

(* ------------------------------------------------------------------ C28 *)

\* The last call had to insert: a build, or an update whose output is not
\* the shape recorded in the state.
MustInsert ==
    /\ call.op = "bundle"
    /\ call.step = "build" \/ call.out # call.recorded

\* C28: ViewInsertBundle needs a single node.  When the inner view puts out
\* a Fragment, the build (or the update whose output changed to a Fragment)
\* aborts with a programming-error failure and inserts into no node; when
\* it puts out Empty, nothing is inserted and the call succeeds.
C28_BundleNeedsSingleNode ==
    MustInsert =>
        /\ call.out.kind = "Fragment" =>
                /\ world.panic = "Can only insert into a singular node"
                /\ world.bundle = call.before.bundle
                /\ InsertedSince(call.before) = <<>>
        /\ call.out.kind = "Empty" =>
                /\ ~Panicked(world)
                /\ world.bundle = call.before.bundle
                /\ InsertedSince(call.before) = <<>>

\* An update's output has changed from a node to a fragment of two nodes.
C28_Witness ==
    /\ MustInsert
    /\ call.step = "update"
    /\ call.recorded.kind = "Node"
    /\ call.out.kind = "Fragment"
    /\ count(call.out) = 2

(* ------------------------------------------------------------------ C29 *)

\* C29: the bundle is inserted once per output entity.  Over a build and
\* the updates that follow, the bundle is inserted when the entity is first
\* produced by build, and again whenever an update's output entity differs
\* from the one recorded in the state; an update whose output equals the
\* recorded shape inserts nothing.
C29_BundleOncePerEntity ==
    call.op = "bundle" =>
        /\ (MustInsert /\ call.out.kind = "Node") =>
                /\ ~Panicked(world)
                /\ InsertedSince(call.before) = <<call.out.entity>>
                /\ world.bundle[call.out.entity] = TheBundle
        /\ ~MustInsert =>
                /\ ~Panicked(world)
                /\ InsertedSince(call.before) = <<>>
                /\ world.bundle = call.before.bundle

(* ------------------------------------------------------------------ C31 *)

\* The nodes the Identify phase listed twice: once for a changed tracked
\* value and once for being newly created.
TwiceDirty == {e \in Ids : Cardinality({i \in DOMAIN dirty : dirty[i] = e}) = 2}

\* C31: a node that is dirty by both criteria in the same cycle, and so is
\* listed twice, has its holder built exactly once in that cycle and ends
\* the cycle with its holder attached.
C31_TwiceDirtyBuiltOnce ==
    (CycleDone \/ Aborted) =>
        \A e \in TwiceDirty :
            /\ Cardinality(Events("begin", e)) = 1
            /\ SlotTag(world, e) = "holder"

(* ------------------------------------------------------------------ C32 *)

\* The i-th record is the invocation of a presenter whose view nests
\* another presenter.
NestingInvocation(i) ==
    /\ world.log[i].ev = "presenter"
    /\ ViewOf(world.log[i].info, 0, world.res).kind \in {"bind", "fn"}

\* The j-th record is the invocation of a presenter nested under node e.
NestedInvocation(j, e) ==
    /\ world.log[j].ev = "presenter"
    /\ world.log[j].e \in world.alive
    /\ world.parent[world.log[j].e] = e

\* The build of node e that the i-th record belongs to began at record b.
BeganAt(b, i) ==
    /\ b < i
    /\ world.log[b].ev = "begin"
    /\ world.log[b].e = world.log[i].e
    /\ \A k \in (b + 1) .. (i - 1) : world.log[k].ev # "begin"

\* C32: a rebuild cascades parent before child.  Whenever a presenter
\* subtree is built, the presenter nested in its view is built within that
\* same call, whatever the nested subtree's own tracker holds, and it is
\* invoked only after the enclosing presenter has been invoked in that build.
C32_ParentBeforeChild ==
    (CycleDone \/ Aborted) =>
        \A i \in DOMAIN world.log :
            NestingInvocation(i) =>
                /\ \E j \in DOMAIN world.log :
                        j > i /\ NestedInvocation(j, world.log[i].e)
                /\ \A b \in DOMAIN world.log :
                        BeganAt(b, i) =>
                            \A j \in b .. i : ~NestedInvocation(j, world.log[i].e)

(* ------------------------------------------------------------------ C33 *)

\* The owning nodes of presenters spawned under node e.
NestedOwners(e) == {c \in Kids(world, e) : world.handle[c] # NoHandle}

\* The text nodes of the store.
TextNodes == {n \in world.alive : world.text[n] # NoText}

\* C33: a bare presenter view keeps the state of the view it returns from
\* one build to the next.  However often it is rebuilt, a presenter nested
\* inside it has spawned its owning node once only, and the text produced
\* inside it is reused, not created again.
C33_BareViewKeepsState ==
    CycleDone =>
        \A e \in world.alive :
            (world.handle[e].tag = "holder" /\ world.handle[e].view.kind = "fn") =>
                /\ Cardinality(NestedOwners(e)) <= 1
                /\ Cardinality(TextNodes) <= 1

(* ------------------------------------------------------------------ C34 *)

\* The records of kind ev written by the direct call.
CallEvents(ev) ==
    {i \in DOMAIN world.log : i > Len(call.before.log) /\ world.log[i].ev = ev}

\* C34: when the owning node recorded in a Bind's state exists but carries
\* no holder attribute, Bind::build returns Empty, invokes no presenter and
\* creates or destroys no node; when the holder attribute disappears during
\* the nested build, Bind::build returns Empty and the detached holder is
\* dropped, not inserted again.
C34_BindWithoutHolder ==
    call.op = "BindBuild" =>
        /\ call.before.handle[BindOwner] = NoHandle =>
                /\ ~Panicked(world)
                /\ call.out = Empty
                /\ CallEvents("presenter") = {}
                /\ Nodes(world) = Nodes(call.before)
        /\ (call.before.handle[BindOwner].tag = "holder"
                /\ call.before.handle[BindOwner].presenter = "strip") =>
                /\ ~Panicked(world)
                /\ call.out = Empty
                /\ world.handle[BindOwner] = NoHandle
                /\ CallEvents("attach") = {}
                /\ CallEvents("presenter") # {}

\* A holder that had cached a leaf lost its slot while it was being built.
C34_Witness ==
    /\ call.op = "BindBuild"
    /\ call.before.handle[BindOwner].tag = "holder"
    /\ call.before.handle[BindOwner].nodes # Empty
    /\ world.handle[BindOwner] = NoHandle
    /\ CallEvents("drop") # {}

(* ------------------------------------------------------------------ C35 *)

\* The shared values read at node n in the running cycle, in order: those
\* of every presenter invoked with a context scoped to n.
ReadsAt(n) ==
    LET RECURSIVE From(_)
        From(i) ==
            IF i > Len(world.log) THEN <<>>
            ELSE IF world.log[i].ev = "presenter" /\ world.log[i].e = n
            THEN Reads(world.log[i].info, 0, world.res) \o From(i + 1)
            ELSE From(i + 1)
    IN From(1)

\* The tracker node n had when the cycle started.
TrackerAtStart(n) == IF n \in start.alive THEN start.tracked[n] ELSE <<>>

\* C35: a read made through use_resource while the subtree at node e is
\* built adds a probe for the value read to the tracker on e, and changes
\* the tracker of no other node, e's parent and the presenters nested in e
\* included: at any point of phase 3, a build that aborted included, each
\* tracker is what it was when the cycle started, followed by the reads
\* made at its own node.
C35_ReadsLandOnOwnTracker ==
    (pc = "phase3" \/ (Aborted /\ v2 # <<>>)) =>
        \A n \in world.alive \cap Ids :
            world.tracked[n] = TrackerAtStart(n) \o ReadsAt(n)

\* A parent and the presenter nested in it were built in one cycle, each
\* reading a value of its own, the parent having a tracker from before.
C35_Witness ==
    /\ CycleDone
    /\ \E e \in world.alive, c \in world.alive :
        /\ world.parent[c] = e
        /\ ReadsAt(e) # <<>>
        /\ ReadsAt(c) # <<>>
        /\ ReadsAt(e) # ReadsAt(c)
        /\ TrackerAtStart(e) # <<>>

(* ------------------------------------------------------------------ C36 *)

\* C36: building a literal text view with previous shape Node(n), n being a
\* node that no longer exists in the store, completes without failure and
\* returns Node(m) for a newly created text node m carrying the declared
\* string.
C36_TextOverGoneNode ==
    (call.op = "TextBuild" /\ call.prev.kind = "Node"
        /\ call.prev.entity \notin call.before.alive) =>
        /\ ~Panicked(world)
        /\ call.out.kind = "Node"
        /\ call.out.entity \notin call.before.alive
        /\ call.out.entity \in world.alive
        /\ world.text[call.out.entity] = call.value

\* The node k parent steps above e, NoEntity past a root.
RECURSIVE Up(_, _, _)
Up(w, e, k) ==
    IF k = 0 \/ e = NoEntity THEN e ELSE Up(w, w.parent[e], k - 1)

\* The first `depth` nodes on the path from e toward its root.
PathNodes(w, e, depth) ==
    {Up(w, e, k) : k \in 0 .. depth - 1} \ {NoEntity}

\* Node e carries a class list and differs between the previous and the
\* current frame in a state the ElementStyles es depend on.
StateChanged(w, es, e) ==
    /\ e \in w.ui.classes
    /\ \/ e \in w.ui.classesChanged
       \/ (e \in w.ui.matcher.focused) # (e \in w.ui.matcher_prev.focused)
       \/ (e \in w.ui.matcher.focus_visible) # (e \in w.ui.matcher_prev.focus_visible)
       \/ es.uses_hover
            /\ (e \in w.ui.matcher.hovering) # (e \in w.ui.matcher_prev.hovering)
       \/ es.uses_focus_within
            /\ (e \in w.ui.matcher.focus_within) # (e \in w.ui.matcher_prev.focus_within)

\* C38: is_changed is true when the element's own styles changed;
\* otherwise it is true exactly when one of the first selector_depth nodes
\* on the path from the element toward the root, the element first,
\* carries a class list and changed its class list, its focus or
\* focus-visible state, its hover state (when uses_hover) or its
\* focus-within state (when uses_focus_within).  With selector_depth 0
\* nothing is inspected, and the path ends at a node without parent.
C38_IsChangedWalk ==
    call.op = "is_changed" =>
        LET es == call.element_styles
        IN call.result =
            (es.changed \/ \E e \in PathNodes(world, call.entity, es.selector_depth) :
                                StateChanged(world, es, e))

\* The element is unchanged and has no class list, its parent changed hover
\* state, and is_changed walked far enough to see it.
C38_Witness ==
    /\ call.op = "is_changed"
    /\ ~call.element_styles.changed
    /\ call.element_styles.uses_hover
    /\ call.element_styles.selector_depth = 2
    /\ call.entity \notin world.ui.classes
    /\ world.parent[call.entity] \in world.ui.matcher.hovering \cap world.ui.classes
    /\ call.result

\* A run of update_styles has just returned.
StylesDone == pc \in {"styled", "restyled"} /\ call.op = "update_styles"

\* The pass issued a compute-style update for node e.
Updated(e) == \E i \in DOMAIN call.cmds : call.cmds[i].op = "update" /\ call.cmds[i].entity = e

\* Before the pass, the ElementStyles of e or its Text counted as changed.
OwnChange(e) ==
    \/ call.before.ui.elt[e] # NoElt /\ call.before.ui.elt[e].changed
    \/ call.before.text[e] # NoText /\ e \in call.before.ui.textChanged

\* Before the pass, a node on the selector path of e had changed a state
\* its ElementStyles depend on.
PathChange(e) ==
    LET es == call.before.ui.elt[e]
    IN /\ es # NoElt
       /\ \E n \in PathNodes(call.before, e, es.selector_depth) :
              StateChanged(call.before, es, n)

\* The cache of a recomputed node e after the pass: absent for a non-text
\* node whose text styles equal the inherited ones, the computed text
\* styles otherwise.
CacheRule(e) ==
    LET f == call.seen[e]
        txt == world.text[e] # NoText
    IN /\ (~txt /\ f.text_styles = f.inherited) => world.ui.cached[e] = NoComp
       /\ (txt \/ f.text_styles # f.inherited) => world.ui.cached[e] = f.text_styles

\* C39, as claimed: after a node is recomputed its cache follows
\* CacheRule, and a compute-style update is issued for it only if its
\* element styles, its text or its cached text styles changed.
C39_UpdateOnlyOnOwnChange ==
    StylesDone =>
        \A e \in Styled :
            call.seen[e].recomputed =>
                /\ CacheRule(e)
                /\ Updated(e) =>
                      OwnChange(e) \/ world.ui.cached[e] # call.before.ui.cached[e]

\* C39, amended: after a node is recomputed its cache follows CacheRule,
\* and a compute-style update is issued for it only if its element styles,
\* a state of a node on its selector path, its text or its cached text
\* styles changed.
C39_CachingRule ==
    StylesDone =>
        \A e \in Styled :
            call.seen[e].recomputed =>
                /\ CacheRule(e)
                /\ Updated(e) =>
                      \/ OwnChange(e)
                      \/ PathChange(e)
                      \/ world.ui.cached[e] # call.before.ui.cached[e]

\* In the second pass a text node was recomputed and updated only because
\* its parent changed hover state; it keeps its cached text styles.
C39_Witness ==
    /\ pc = "restyled"
    /\ \E e \in Styled :
        /\ call.seen[e].recomputed
        /\ Updated(e)
        /\ ~OwnChange(e)
        /\ world.text[e] # NoText
        /\ world.ui.cached[e] # NoComp
        /\ world.ui.cached[e] = call.before.ui.cached[e]
        /\ world.parent[e] \in call.before.ui.matcher.hovering

\* C37: when the text styles computed at an ancestor changed in a pass,
\* every text node below it that inherits them (no node from below the
\* ancestor down to the text node sets text styles of its own) was
\* recomputed in that pass and caches the ancestor's new text styles.
C37_InheritedReachText ==
    StylesDone =>
        \A d \in Styled, k \in 1 .. MaxStyled :
            LET a == Up(world, d, k)
                between == {Up(world, d, j) : j \in 0 .. k - 1}
            IN (/\ a # NoEntity
                /\ world.text[d] # NoText
                /\ call.seen[a].recomputed
                /\ call.seen[a].changed
                /\ \A n \in between :
                       world.ui.elt[n] = NoElt \/ world.ui.elt[n].override = NoComp)
               => /\ call.seen[d].recomputed
                  /\ world.ui.cached[d] = call.seen[a].text_styles

====
